---- MODULE Spec2Model ----
(***************************************************************************)
(* Model of the blocker cube-packing solver: rotation group, orientation   *)
(* generation, grid indexing, canonical keys, the placement table and the  *)
(* iterative backtracking search over an explicit stack.                   *)
(*                                                                         *)
(* Conventions.  A coordinate is a triple <<x, y, z>>.  A grid key is a    *)
(* sequence of GRID_SIZE bytes, cell index c stored at position c + 1.     *)
(* An Option is a sequence: <<>> is None and <<v>> is Some(v).  A cell     *)
(* bitmask (u32/u64) is the set of its set bit positions, a piece bitmask  *)
(* likewise.  Piece indices are 0-based as in the source.                  *)
(***************************************************************************)
EXTENDS Integers, Sequences, FiniteSets, TLC

VARIABLES
    puzzle,          \* index of the puzzle definition being solved
    max_solutions,   \* Option<usize> passed to solve
    search_stack,    \* Vec<PartialSolution>, top of stack is the last entry
    solutions,       \* Vec<Vec<PlacedPiece>>
    seen_states,     \* FxHashSet<[u8; GRID_SIZE]>
    pc,              \* position of solve_with_mask: "search" or "done"
    k_puzzle,        \* canonical_key study: puzzle whose shape and pair are used
    k_orig,          \* canonical_key study: the arrangement first drawn
    k_arr,           \* canonical_key study: the arrangement after the operation
    k_key0,          \* canonical_key(k_orig)
    k_key,           \* canonical_key(k_arr)
    k_op,            \* operation that produced k_arr from k_orig
    previous,        \* Option: the list an earlier solve call of this run returned
    invoked,         \* a function called on its own: its name and arguments
    returned,        \* the values the calls made so far returned, in order
    file,            \* Option: the bytes of solutions.bin
    loaded           \* <<>> before load_all returns, then <<its result>>

vars == <<puzzle, max_solutions, search_stack, solutions, seen_states, pc,
          k_puzzle, k_orig, k_arr, k_key0, k_key, k_op,
          previous, invoked, returned, file, loaded>>

solverVars == <<puzzle, max_solutions, search_stack, solutions, seen_states, pc>>

keyVars == <<k_puzzle, k_orig, k_arr, k_key0, k_key, k_op>>

callVars == <<invoked, returned>>

fileVars == <<file, loaded>>

None == <<>>

Some(v) == <<v>>

(***************************************************************************)
(* Program constants                                                       *)
(***************************************************************************)
NUM_ROTATIONS == 24

MAX_CUBES == 5

(***************************************************************************)
(* Generic helpers                                                         *)
(***************************************************************************)
Min(S) == CHOOSE m \in S : \A n \in S : m <= n

Max(S) == CHOOSE m \in S : \A n \in S : m >= n

\* The value of a local "let x = e": Bound({body(x) : x \in {e}}) computes
\* e once and uses the value for every x in body.
Bound(S) == CHOOSE v \in S : TRUE

\* A sequence built by a loop, as the array of values it holds.
Arr(f) == Bound({SubSeq(a, 1, Len(a)) : a \in {f}})

\* Lexicographic order on integer sequences, as Rust orders arrays and Vecs.
LexLess(a, b) ==
    LET common == IF Len(a) < Len(b) THEN Len(a) ELSE Len(b)
        diff == {i \in 1..common : a[i] # b[i]}
    IN  IF diff = {} THEN Len(a) < Len(b)
        ELSE a[Min(diff)] < b[Min(diff)]

\* A sequence of coordinates as the flat integer sequence Rust compares.
Flatten(coords) ==
    Arr([i \in 1..(3 * Len(coords)) |-> coords[((i - 1) \div 3) + 1][((i - 1) % 3) + 1]])

(***************************************************************************)
(* geometry.rs                                                             *)
(***************************************************************************)
ROTATIONS(r, c) ==
    LET x == c[1]
        y == c[2]
        z == c[3]
    IN  CASE r = 0 -> <<x, y, z>>
          [] r = 1 -> <<-y, x, z>>
          [] r = 2 -> <<-x, -y, z>>
          [] r = 3 -> <<y, -x, z>>
          [] r = 4 -> <<x, -z, y>>
          [] r = 5 -> <<z, x, y>>
          [] r = 6 -> <<-x, z, y>>
          [] r = 7 -> <<-z, -x, y>>
          [] r = 8 -> <<x, -y, -z>>
          [] r = 9 -> <<y, x, -z>>
          [] r = 10 -> <<-x, y, -z>>
          [] r = 11 -> <<-y, -x, -z>>
          [] r = 12 -> <<x, z, -y>>
          [] r = 13 -> <<-z, x, -y>>
          [] r = 14 -> <<-x, -z, -y>>
          [] r = 15 -> <<z, -x, -y>>
          [] r = 16 -> <<z, y, -x>>
          [] r = 17 -> <<-y, z, -x>>
          [] r = 18 -> <<-z, -y, -x>>
          [] r = 19 -> <<y, -z, -x>>
          [] r = 20 -> <<-z, y, x>>
          [] r = 21 -> <<-y, -z, x>>
          [] r = 22 -> <<z, -y, x>>
          [] OTHER -> <<y, z, x>>

\* min() of an empty iterator is None and unwrap() of None panics.
normalize_to_origin_panics(coords) == coords = <<>>

\* normalize_to_origin subtracting the x minimum on every axis.
normalize_to_origin_OneAxis(coords) ==
    LET min_x == Min({coords[i][1] : i \in DOMAIN coords})
    IN  Arr([i \in DOMAIN coords |->
            <<coords[i][1] - min_x, coords[i][2] - min_x, coords[i][3] - min_x>>])

\* coords is non-empty (min().unwrap()).
normalize_to_origin(coords) ==
    LET min_x == Min({coords[i][1] : i \in DOMAIN coords})
        min_y == Min({coords[i][2] : i \in DOMAIN coords})
        min_z == Min({coords[i][3] : i \in DOMAIN coords})
    IN  Arr([i \in DOMAIN coords |->
            <<coords[i][1] - min_x, coords[i][2] - min_y, coords[i][3] - min_z>>])

\* The elements of a set of coordinate sequences in ascending Vec order:
\* the j-th entry is the one with j - 1 smaller elements.
SortedSeq(S) ==
    Arr([j \in 1..Cardinality(S) |->
        CHOOSE o \in S :
            Cardinality({q \in S : LexLess(Flatten(q), Flatten(o))}) = j - 1])

\* sort() followed by dedup() leaves each distinct Vec<Coord> once, ascending.
all_orientations(piece) ==
    LET rotated(r) == normalize_to_origin(Arr([i \in DOMAIN piece |-> ROTATIONS(r, piece[i])]))
    IN  SortedSeq({rotated(r) : r \in 0..(NUM_ROTATIONS - 1)})

(***************************************************************************)
(* grid.rs                                                                 *)
(***************************************************************************)
\* coord_to_idx with the x term scaled by DIM once.
coord_to_idx_OneFactor(DIM, x, y, z) == x * DIM + y * DIM + z

coord_to_idx(DIM, x, y, z) == x * DIM * DIM + y * DIM + z

\* idx_to_coord reading the index z-major.
idx_to_coord_ZMajor(DIM, cell_index) ==
    <<cell_index % DIM, (cell_index \div DIM) % DIM, cell_index \div (DIM * DIM)>>

idx_to_coord(DIM, cell_index) ==
    <<cell_index \div (DIM * DIM), (cell_index \div DIM) % DIM, cell_index % DIM>>

\* The match arms of build_rotation_table, on doubled centred coordinates.
TableRotate(rot, c) ==
    LET cx == c[1]
        cy == c[2]
        cz == c[3]
    IN  CASE rot = 0 -> <<cx, cy, cz>>
          [] rot = 1 -> <<-cy, cx, cz>>
          [] rot = 2 -> <<-cx, -cy, cz>>
          [] rot = 3 -> <<cy, -cx, cz>>
          [] rot = 4 -> <<cx, -cz, cy>>
          [] rot = 5 -> <<cz, cx, cy>>
          [] rot = 6 -> <<-cx, cz, cy>>
          [] rot = 7 -> <<-cz, -cx, cy>>
          [] rot = 8 -> <<cx, -cy, -cz>>
          [] rot = 9 -> <<cy, cx, -cz>>
          [] rot = 10 -> <<-cx, cy, -cz>>
          [] rot = 11 -> <<-cy, -cx, -cz>>
          [] rot = 12 -> <<cx, cz, -cy>>
          [] rot = 13 -> <<-cz, cx, -cy>>
          [] rot = 14 -> <<-cx, -cz, -cy>>
          [] rot = 15 -> <<cz, -cx, -cy>>
          [] rot = 16 -> <<cz, cy, -cx>>
          [] rot = 17 -> <<-cy, cz, -cx>>
          [] rot = 18 -> <<-cz, -cy, -cx>>
          [] rot = 19 -> <<cy, -cz, -cx>>
          [] rot = 20 -> <<-cz, cy, cx>>
          [] rot = 21 -> <<-cy, -cz, cx>>
          [] rot = 22 -> <<cz, -cy, cx>>
          [] OTHER -> <<cy, cz, cx>>

\* build_rotation_table on coordinates centred without doubling.
build_rotation_table_Undoubled(DIM) ==
    LET centre == (DIM - 1) \div 2
        dest(rot, src) ==
            LET c == idx_to_coord(DIM, src)
                r == TableRotate(rot, <<c[1] - centre, c[2] - centre, c[3] - centre>>)
            IN  ((r[1] + centre) * DIM * DIM + (r[2] + centre) * DIM + (r[3] + centre)) % 256
    IN  [rot1 \in 1..NUM_ROTATIONS |->
            [src1 \in 1..(DIM * DIM * DIM) |-> dest(rot1 - 1, src1 - 1)]]

\* table[rot][src] = dest; rows are indexed rot + 1, cells src + 1.
build_rotation_table(DIM) ==
    LET dim_m1 == DIM - 1
        dest(rot, src) ==
            LET c == idx_to_coord(DIM, src)
                r == TableRotate(rot, <<2 * c[1] - dim_m1, 2 * c[2] - dim_m1, 2 * c[3] - dim_m1>>)
                dx == (r[1] + dim_m1) \div 2
                dy == (r[2] + dim_m1) \div 2
                dz == (r[3] + dim_m1) \div 2
            IN  (dx * DIM * DIM + dy * DIM + dz) % 256
    IN  [rot1 \in 1..NUM_ROTATIONS |->
            [src1 \in 1..(DIM * DIM * DIM) |-> dest(rot1 - 1, src1 - 1)]]

\* The tables of the dimensions in use, built once (const evaluation).
RotationTables == [DIM \in 0..3 |-> build_rotation_table(DIM)]

\* For each rotation and destination, the last source cell the copy loop
\* "rotated[dest_cell] = original[source_cell]" writes there (0: none).
LastWriter == [DIM \in 0..3 |->
    [rot1 \in 1..NUM_ROTATIONS |->
        [d1 \in 1..(DIM * DIM * DIM) |->
            LET srcs == {s1 \in 1..(DIM * DIM * DIM) : RotationTables[DIM][rot1][s1] = d1 - 1}
            IN  IF srcs = {} THEN 0 ELSE Max(srcs)]]]

\* rotated[dest] = original[source] for each source in ascending order:
\* the last source written to a destination wins, an unwritten one stays 0.
ApplyMapping(DIM, rot1, original) ==
    Arr([d1 \in DOMAIN original |->
        IF LastWriter[DIM][rot1][d1] = 0 THEN 0 ELSE original[LastWriter[DIM][rot1][d1]]])

\* placed.cubes(): the first cube_count entries of positions.
cubes(placed) == SubSeq(placed.positions, 1, placed.cube_count)

\* Later pieces overwrite earlier ones; uncovered cells hold 0.
solution_to_grid(DIM, solution) ==
    Arr([c1 \in 1..(DIM * DIM * DIM) |->
        LET covering == {i \in DOMAIN solution :
                            \E k \in 1..solution[i].cube_count :
                                coord_to_idx(DIM, solution[i].positions[k][1],
                                             solution[i].positions[k][2],
                                             solution[i].positions[k][3]) = c1 - 1}
        IN  IF covering = {} THEN 0
            ELSE (solution[Max(covering)].piece_index + 1) % 256])

reflect_key_x(DIM, original) ==
    Arr([d1 \in DOMAIN original |->
        LET c == idx_to_coord(DIM, d1 - 1)
        IN  original[coord_to_idx(DIM, DIM - 1 - c[1], c[2], c[3]) + 1]])

\* swap_chiral_in_key rewriting the first id only.
swap_chiral_in_key_OneWay(original, chiral_pair) ==
    LET first == (chiral_pair[1] + 1) % 256
        second == (chiral_pair[2] + 1) % 256
    IN  Arr([i \in DOMAIN original |->
            IF original[i] = first THEN second ELSE original[i]])

swap_chiral_in_key(original, chiral_pair) ==
    LET first == (chiral_pair[1] + 1) % 256
        second == (chiral_pair[2] + 1) % 256
    IN  Arr([i \in DOMAIN original |->
            IF original[i] = first THEN second
            ELSE IF original[i] = second THEN first
            ELSE original[i]])

\* The value "smallest" holds after a loop "if c < smallest { smallest = c }"
\* over the candidates S: the one no other candidate is below.
Least(S) == Bound({CHOOSE c \in T : \A d \in T : ~LexLess(d, c) : T \in {S}})

\* smallest starts as the original; the loop runs over table[1..].
\* find_smallest_rotation with the loop stopping one table row early.
find_smallest_rotation_SkipLast(DIM, original) ==
    Least({original} \cup {ApplyMapping(DIM, rot1, original) : rot1 \in 2..(NUM_ROTATIONS - 1)})

find_smallest_rotation(DIM, original) ==
    Least({original} \cup {ApplyMapping(DIM, rot1, original) : rot1 \in 2..NUM_ROTATIONS})

\* find_smallest_rotation_with_reflection without the chiral id exchange.
find_smallest_rotation_with_reflection_NoSwap(DIM, original, chiral_pair) ==
    Bound({IF LexLess(reflected_smallest, smallest) THEN reflected_smallest ELSE smallest :
              smallest \in {find_smallest_rotation(DIM, original)},
              reflected_smallest \in
                  {find_smallest_rotation(DIM, reflected) :
                      reflected \in {reflect_key_x(DIM, original)}}})

find_smallest_rotation_with_reflection(DIM, original, chiral_pair) ==
    LET normalized(mirrored) ==
            IF chiral_pair # None
            THEN swap_chiral_in_key(mirrored, chiral_pair[1])
            ELSE mirrored
    IN  Bound({IF LexLess(reflected_smallest, smallest) THEN reflected_smallest ELSE smallest :
                  smallest \in {find_smallest_rotation(DIM, original)},
                  reflected_smallest \in
                      {find_smallest_rotation(DIM, reflected) :
                          reflected \in {normalized(mirrored) :
                                            mirrored \in {reflect_key_x(DIM, original)}}}})

canonical_key(DIM, solution, chiral_pair) ==
    Bound({find_smallest_rotation_with_reflection(DIM, grid_key, chiral_pair) :
              grid_key \in {solution_to_grid(DIM, solution)}})

(***************************************************************************)
(* pieces.rs                                                               *)
(***************************************************************************)
EMPTY == [piece_index |-> 0,
          positions |-> [i \in 1..MAX_CUBES |-> <<0, 0, 0>>],
          cube_count |-> 0]

\* The asserts of Puzzle::new without the loop over the pieces.
PuzzleNewAccepts_NoCubeLimit(pz) ==
    /\ pz.DIM * pz.DIM * pz.DIM = pz.GRID_SIZE
    /\ Len(pz.pieces) = pz.NUM_PIECES
    /\ pz.GRID_SIZE <= 64
    /\ pz.NUM_PIECES <= 32

\* The asserts of Puzzle::new.
PuzzleNewAccepts(pz) ==
    /\ pz.DIM * pz.DIM * pz.DIM = pz.GRID_SIZE
    /\ Len(pz.pieces) = pz.NUM_PIECES
    /\ pz.GRID_SIZE <= 64
    /\ pz.NUM_PIECES <= 32
    /\ \A i \in DOMAIN pz.pieces : Len(pz.pieces[i]) <= MAX_CUBES

\* Puzzle::<DIM, GRID_SIZE, NUM_PIECES>::new(pieces, chiral_pair): the Puzzle
\* value, or None when an assert fails and no value comes into being.
PuzzleNew(def) ==
    IF PuzzleNewAccepts(def)
    THEN Some([pieces |-> def.pieces, chiral_pair |-> def.chiral_pair])
    ELSE None

Domino == <<(<<0, 0, 0>>), (<<1, 0, 0>>)>>

SmallL == <<(<<0, 0, 0>>), (<<1, 0, 0>>), (<<0, 1, 0>>)>>

Monomino == <<(<<0, 0, 0>>)>>

ScrewA == <<(<<0, 0, 0>>), (<<1, 0, 0>>), (<<0, 1, 0>>), (<<1, 0, 1>>)>>

\* The puzzle definitions the search is run on.
\* Six scattered pieces whose cube counts add up to 27.
Scattered0 ==
    <<(<<2, 1, 2>>), (<<2, 2, 2>>), (<<1, 0, 0>>), (<<0, 2, 0>>), (<<0, 0, 1>>)>>

Scattered1 ==
    <<(<<0, 0, 2>>), (<<0, 0, 1>>), (<<2, 1, 0>>), (<<2, 1, 1>>)>>

Scattered2 ==
    <<(<<1, 1, 1>>), (<<0, 0, 0>>), (<<0, 2, 2>>), (<<1, 0, 2>>), (<<2, 0, 2>>)>>

Scattered3 ==
    <<(<<1, 0, 1>>), (<<2, 1, 0>>), (<<1, 2, 1>>), (<<2, 0, 0>>), (<<0, 0, 2>>)>>

Scattered4 ==
    <<(<<1, 1, 0>>), (<<0, 2, 1>>), (<<2, 0, 1>>)>>

Scattered5 ==
    <<(<<1, 1, 0>>), (<<1, 1, 2>>), (<<0, 0, 0>>), (<<1, 0, 2>>), (<<2, 0, 1>>)>>

Puzzles == <<
    [DIM |-> 2, GRID_SIZE |-> 8, NUM_PIECES |-> 3,
     pieces |-> <<Domino, Domino, ScrewA>>, chiral_pair |-> None],
    [DIM |-> 2, GRID_SIZE |-> 8, NUM_PIECES |-> 4,
     pieces |-> <<Monomino, Domino, Domino, SmallL>>, chiral_pair |-> Some(<<1, 2>>)],
    [DIM |-> 3, GRID_SIZE |-> 27, NUM_PIECES |-> 6,
     pieces |-> <<Scattered0, Scattered1, Scattered2, Scattered3, Scattered4, Scattered5>>,
     chiral_pair |-> None],
    \* a piece with no cubes
    [DIM |-> 2, GRID_SIZE |-> 8, NUM_PIECES |-> 3,
     pieces |-> <<Domino, <<>>, ScrewA>>, chiral_pair |-> None],
    \* no pieces
    [DIM |-> 2, GRID_SIZE |-> 8, NUM_PIECES |-> 0,
     pieces |-> <<>>, chiral_pair |-> None],
    \* nine cubes for eight cells
    [DIM |-> 2, GRID_SIZE |-> 8, NUM_PIECES |-> 4,
     pieces |-> <<Domino, Domino, ScrewA, Monomino>>, chiral_pair |-> None],
    \* six cubes for eight cells
    [DIM |-> 2, GRID_SIZE |-> 8, NUM_PIECES |-> 2,
     pieces |-> <<Domino, ScrewA>>, chiral_pair |-> None],
    \* no cells and no pieces
    [DIM |-> 0, GRID_SIZE |-> 0, NUM_PIECES |-> 0,
     pieces |-> <<>>, chiral_pair |-> None]
    >>

(***************************************************************************)
(* solver.rs                                                               *)
(***************************************************************************)
zero == {}

\* all_filled one bit short.
all_filled_OffByOne(grid_size) == 0..(grid_size - 2)

all_filled(grid_size) == 0..(grid_size - 1)

bit(index) == {index}

\* Number of trailing one-bits of a mask of at most 64 bits.
trailing_ones(mask) == Min({i \in 0..64 : i \notin mask})

\* find_first_empty_cell returning the highest empty cell.
find_first_empty_cell_HighestEmpty(GRID_SIZE, occupied) ==
    IF occupied = all_filled(GRID_SIZE) THEN None
    ELSE Some(Max({i \in 0..(GRID_SIZE - 1) : i \notin occupied}))

find_first_empty_cell(GRID_SIZE, occupied) ==
    IF occupied = all_filled(GRID_SIZE) THEN None
    ELSE Some(trailing_ones(occupied))

\* try_create_placement rejecting only the coordinates at or above DIM.
try_create_placement_NoLowerBound(DIM, orientation, target, anchor) ==
    LET offset == <<target[1] - anchor[1], target[2] - anchor[2], target[3] - anchor[3]>>
        absolute(k) == <<orientation[k][1] + offset[1],
                         orientation[k][2] + offset[2],
                         orientation[k][3] + offset[3]>>
        inside(c) == \A a \in 1..3 : c[a] < DIM
    IN  IF \E k \in DOMAIN orientation : ~inside(absolute(k)) THEN None
        ELSE Some([occupied_mask |->
                       UNION {bit(coord_to_idx(DIM, absolute(k)[1], absolute(k)[2], absolute(k)[3])) :
                                 k \in DOMAIN orientation},
                   cube_positions |->
                       Arr([k \in 1..MAX_CUBES |->
                           IF k <= Len(orientation) THEN absolute(k) ELSE <<0, 0, 0>>]),
                   cube_count |-> Len(orientation)])

try_create_placement(DIM, orientation, target, anchor) ==
    LET offset == <<target[1] - anchor[1], target[2] - anchor[2], target[3] - anchor[3]>>
        absolute(k) == <<orientation[k][1] + offset[1],
                         orientation[k][2] + offset[2],
                         orientation[k][3] + offset[3]>>
        inside(c) == \A a \in 1..3 : 0 <= c[a] /\ c[a] < DIM
    IN  IF \E k \in DOMAIN orientation : ~inside(absolute(k)) THEN None
        ELSE Some([occupied_mask |->
                       UNION {bit(coord_to_idx(DIM, absolute(k)[1], absolute(k)[2], absolute(k)[3])) :
                                 k \in DOMAIN orientation},
                   cube_positions |->
                       Arr([k \in 1..MAX_CUBES |->
                           IF k <= Len(orientation) THEN absolute(k) ELSE <<0, 0, 0>>]),
                   cube_count |-> Len(orientation)])

\* The Vec a loop "if let Some(p) = opts[k] { placements.push(p) }" builds.
Pushed(opts) ==
    LET hits == {k \in DOMAIN opts : opts[k] # None}
    IN  Arr([j \in 1..Cardinality(hits) |->
            opts[CHOOSE k \in hits : Cardinality({i \in hits : i <= k}) = j][1]])

\* table[piece][target_cell] = placements, orientation-major then anchor.
build_placement_table(DIM, GRID_SIZE, pieces) ==
    [p1 \in DOMAIN pieces |->
        LET n == Len(pieces[p1])
            piece_table(orientations) ==
                [t1 \in 1..GRID_SIZE |->
                    Pushed(Arr([k \in 1..(Len(orientations) * n) |->
                        try_create_placement(DIM,
                            orientations[((k - 1) \div n) + 1],
                            idx_to_coord(DIM, t1 - 1),
                            orientations[((k - 1) \div n) + 1][((k - 1) % n) + 1])]))]
        \* all_orientations(piece) is computed once per piece
        IN  CHOOSE t \in {piece_table(o) : o \in {all_orientations(pieces[p1])}} : TRUE]

\* all_orientations is called on every piece, and normalize_to_origin on
\* each of its rotations (which has as many cubes as the piece).
build_placement_table_panics(pieces) ==
    \E p1 \in DOMAIN pieces : normalize_to_origin_panics(pieces[p1])

\* Built once per puzzle definition at the start of solve_with_mask (no table
\* comes into being when the build panics).
PlacementTables ==
    [i \in DOMAIN Puzzles |->
        IF build_placement_table_panics(Puzzles[i].pieces) THEN <<>>
        ELSE build_placement_table(Puzzles[i].DIM, Puzzles[i].GRID_SIZE, Puzzles[i].pieces)]

\* Puzzle::canonical_key: the grid-level key with the puzzle's chiral pair.
puzzle_canonical_key(pz, solution) == canonical_key(pz.DIM, solution, pz.chiral_pair)

\* Extend leaving the bit of the placed piece set in remaining_pieces.
Extend_KeepRemaining(partial, piece_index, placement) ==
    LET new_occupied == partial.occupied_cells \cup placement.occupied_mask
        new_piece == [piece_index |-> piece_index,
                      positions |-> placement.cube_positions,
                      cube_count |-> placement.cube_count]
        new_placed == [partial.placed_pieces EXCEPT ![partial.placed_count + 1] = new_piece]
        new_count == partial.placed_count + 1
    IN  [placed_pieces |-> new_placed,
         placed_count |-> new_count,
         remaining_pieces |-> partial.remaining_pieces,
         occupied_cells |-> new_occupied,
         current_piece_index |-> 0,
         current_orientation_index |-> 0]

\* The frame fields of a candidate: partial extended by placement.
Extend(partial, piece_index, placement) ==
    LET new_occupied == partial.occupied_cells \cup placement.occupied_mask
        new_piece == [piece_index |-> piece_index,
                      positions |-> placement.cube_positions,
                      cube_count |-> placement.cube_count]
        new_placed == [partial.placed_pieces EXCEPT ![partial.placed_count + 1] = new_piece]
        new_count == partial.placed_count + 1
        new_remaining == partial.remaining_pieces \ {piece_index}
    IN  [placed_pieces |-> new_placed,
         placed_count |-> new_count,
         remaining_pieces |-> new_remaining,
         occupied_cells |-> new_occupied,
         current_piece_index |-> 0,
         current_orientation_index |-> 0]

\* ScanPlacements without the lookup in the seen set.
ScanPlacements_NoSeen(pzi, partial, piece_index, target_cell, seen) ==
    LET scan_from(valid_placements) ==
            LET RECURSIVE FirstIndex(_, _, _)
                \* The first index in lo..hi at which Hit holds (0: none): the
                \* indices are looked at in ascending order, none beyond the hit.
                FirstIndex(Hit(_), lo, hi) ==
                    IF lo > hi THEN 0
                    ELSE IF lo = hi THEN (IF Hit(lo) THEN lo ELSE 0)
                    ELSE Bound({IF left # 0 THEN left
                                ELSE FirstIndex(Hit, ((lo + hi) \div 2) + 1, hi) :
                                   left \in {FirstIndex(Hit, lo, (lo + hi) \div 2)}})
                child(k) == Extend(partial, piece_index, valid_placements[k])
                canonical(k) ==
                    Bound({puzzle_canonical_key(Puzzles[pzi],
                               SubSeq(c.placed_pieces, 1, c.placed_count)) :
                              c \in {child(k)}})
                Fresh(k) ==
                    (partial.occupied_cells \cap valid_placements[k].occupied_mask) = zero
                outcome(first) ==
                    IF first = 0
                    THEN [pushed |-> FALSE,
                          partial |-> [partial EXCEPT !.current_orientation_index =
                                          IF @ < Len(valid_placements)
                                          THEN Len(valid_placements) ELSE @]]
                    ELSE [pushed |-> TRUE,
                          partial |-> [partial EXCEPT !.current_orientation_index = first],
                          canonical |-> canonical(first),
                          child |-> child(first)]
            IN  Bound({outcome(first) :
                          first \in {FirstIndex(Fresh, partial.current_orientation_index + 1,
                                                Len(valid_placements))}})
    IN  scan_from(PlacementTables[pzi][piece_index + 1][target_cell + 1])

\* The inner while loop over valid_placements for piece_index, from the
\* frame's current_orientation_index, up to the first push: a placement is
\* skipped when it overlaps or when its canonical key is already seen.
ScanPlacements(pzi, partial, piece_index, target_cell, seen) ==
    LET scan_from(valid_placements) ==
            LET RECURSIVE FirstIndex(_, _, _)
                \* The first index in lo..hi at which Hit holds (0: none): the
                \* indices are looked at in ascending order, none beyond the hit.
                FirstIndex(Hit(_), lo, hi) ==
                    IF lo > hi THEN 0
                    ELSE IF lo = hi THEN (IF Hit(lo) THEN lo ELSE 0)
                    ELSE Bound({IF left # 0 THEN left
                                ELSE FirstIndex(Hit, ((lo + hi) \div 2) + 1, hi) :
                                   left \in {FirstIndex(Hit, lo, (lo + hi) \div 2)}})
                child(k) == Extend(partial, piece_index, valid_placements[k])
                canonical(k) ==
                    Bound({puzzle_canonical_key(Puzzles[pzi],
                               SubSeq(c.placed_pieces, 1, c.placed_count)) :
                              c \in {child(k)}})
                Fresh(k) ==
                    /\ (partial.occupied_cells \cap valid_placements[k].occupied_mask) = zero
                    /\ canonical(k) \notin seen
                outcome(first) ==
                    IF first = 0
                    THEN [pushed |-> FALSE,
                          partial |-> [partial EXCEPT !.current_orientation_index =
                                          IF @ < Len(valid_placements)
                                          THEN Len(valid_placements) ELSE @]]
                    ELSE [pushed |-> TRUE,
                          partial |-> [partial EXCEPT !.current_orientation_index = first],
                          canonical |-> canonical(first),
                          child |-> child(first)]
            IN  Bound({outcome(first) :
                          first \in {FirstIndex(Fresh, partial.current_orientation_index + 1,
                                                Len(valid_placements))}})
    IN  scan_from(PlacementTables[pzi][piece_index + 1][target_cell + 1])

RECURSIVE ScanPieces(_, _, _, _)
\* The 'pieces loop: remaining pieces in ascending order from the frame's
\* current_piece_index, each with its placements at target_cell.
ScanPieces(pzi, partial, target_cell, seen) ==
    LET num_pieces == Len(Puzzles[pzi].pieces)
        candidates == {i \in partial.current_piece_index..(num_pieces - 1) :
                          i \in partial.remaining_pieces}
        next_piece(result) ==
            IF result.pushed THEN result
            ELSE ScanPieces(pzi,
                     [result.partial EXCEPT !.current_piece_index = @ + 1,
                                            !.current_orientation_index = 0],
                     target_cell, seen)
    IN  IF candidates = {} THEN [pushed |-> FALSE, partial |-> partial]
        ELSE Bound({next_piece(result) :
                       result \in {ScanPlacements(pzi,
                                       [partial EXCEPT !.current_piece_index = Min(candidates)],
                                       Min(candidates), target_cell, seen)}})

RECURSIVE ExaminePairs(_, _, _, _, _)
\* The 'pieces loop taken one placement at a time: examined lists, in the
\* order the loop reaches them, the (piece_index, placement index) pairs whose
\* placement the inner while loop reads, up to the push or the exhaustion.
ExaminePairs(pzi, partial, target_cell, seen, examined) ==
    LET num_pieces == Len(Puzzles[pzi].pieces)
        candidates == {i \in partial.current_piece_index..(num_pieces - 1) :
                          i \in partial.remaining_pieces}
        piece_index == Min(candidates)
        valid_placements == PlacementTables[pzi][piece_index + 1][target_cell + 1]
        at == [partial EXCEPT !.current_piece_index = piece_index]
        placement == valid_placements[at.current_orientation_index + 1]
        advanced == [at EXCEPT !.current_orientation_index = @ + 1]
        reached == Append(examined, <<piece_index, at.current_orientation_index>>)
        child == Extend(advanced, piece_index, placement)
        step(canonical) ==
            IF canonical \in seen
            THEN ExaminePairs(pzi, advanced, target_cell, seen, reached)
            ELSE [pushed |-> TRUE, partial |-> advanced, canonical |-> canonical,
                  child |-> child, examined |-> reached]
    IN  IF candidates = {}
        THEN [pushed |-> FALSE, partial |-> partial, examined |-> examined]
        ELSE IF at.current_orientation_index < Len(valid_placements)
             THEN IF (at.occupied_cells \cap placement.occupied_mask) # zero
                  THEN ExaminePairs(pzi, advanced, target_cell, seen, reached)
                  ELSE Bound({step(canonical) :
                                 canonical \in {puzzle_canonical_key(Puzzles[pzi],
                                     SubSeq(child.placed_pieces, 1, child.placed_count))}})
             ELSE ExaminePairs(pzi,
                      [at EXCEPT !.current_piece_index = @ + 1,
                                 !.current_orientation_index = 0],
                      target_cell, seen, examined)

InitialFrame(pz) ==
    [placed_pieces |-> [i \in 1..pz.NUM_PIECES |-> EMPTY],
     placed_count |-> 0,
     remaining_pieces |-> 0..(Len(pz.pieces) - 1),
     occupied_cells |-> zero,
     current_piece_index |-> 0,
     current_orientation_index |-> 0]

\* Bound on the solution cap passed to solve.
MaxCap == 2

SolverIdle ==
    /\ puzzle = 0
    /\ max_solutions = None
    /\ search_stack = <<>>
    /\ solutions = <<>>
    /\ seen_states = {}
    /\ pc = "idle"

KeyIdle ==
    /\ k_puzzle = 0
    /\ k_orig = <<>>
    /\ k_arr = <<>>
    /\ k_key0 = <<>>
    /\ k_key = <<>>
    /\ k_op = "idle"

CallIdle ==
    /\ invoked = [fn |-> "none"]
    /\ returned = <<>>

FileIdle ==
    /\ file = None
    /\ loaded = <<>>

\* State on entry to the search loop of solve_with_mask, for the given
\* (puzzle, cap) pairs.
SolveInit(calls) ==
    /\ \E call \in calls : puzzle = call[1] /\ max_solutions = call[2]
    /\ PuzzleNewAccepts(Puzzles[puzzle])
    /\ search_stack = <<InitialFrame(Puzzles[puzzle])>>
    /\ solutions = <<>>
    /\ seen_states = {}
    /\ pc = "search"
    /\ previous = None
    /\ KeyIdle
    /\ CallIdle
    /\ FileIdle

\* The two 2x2x2 puzzles, uncapped and under every cap up to MaxCap.
Init == SolveInit({1, 2} \X ({None} \cup {Some(n) : n \in 0..MaxCap}))

\* The 3x3x3 puzzle uncapped; the first 2x2x2 puzzle uncapped and capped.
LossInit == SolveInit({<<3, None>>, <<1, None>>, <<1, Some(1)>>})

Top == search_stack[Len(search_stack)]

Popped == SubSeq(search_stack, 1, Len(search_stack) - 1)

CapReached(count) == max_solutions # None /\ count >= max_solutions[1]

\* pop of a complete frame below the cap: record the solution and continue.
RecordSolution ==
    /\ pc = "search"
    /\ search_stack # <<>>
    /\ find_first_empty_cell(Puzzles[puzzle].GRID_SIZE, Top.occupied_cells) = None
    /\ ~CapReached(Len(solutions) + 1)
    /\ solutions' = Append(solutions, SubSeq(Top.placed_pieces, 1, Top.placed_count))
    /\ search_stack' = Popped
    /\ UNCHANGED <<puzzle, max_solutions, seen_states, pc>>
    /\ UNCHANGED <<keyVars, previous, callVars, fileVars>>

\* pop of a complete frame that reaches the cap: record it and return.
RecordSolutionAndReturn ==
    /\ pc = "search"
    /\ search_stack # <<>>
    /\ find_first_empty_cell(Puzzles[puzzle].GRID_SIZE, Top.occupied_cells) = None
    /\ CapReached(Len(solutions) + 1)
    /\ solutions' = Append(solutions, SubSeq(Top.placed_pieces, 1, Top.placed_count))
    /\ search_stack' = Popped
    /\ pc' = "done"
    /\ UNCHANGED <<puzzle, max_solutions, seen_states>>
    /\ UNCHANGED <<keyVars, previous, callVars, fileVars>>

\* PopAndPush scanning the pieces from any remaining piece at or after the
\* cursor, as if the order came from iterating a hash set.
PopAndPush_AnyPiece ==
    /\ pc = "search"
    /\ search_stack # <<>>
    /\ find_first_empty_cell(Puzzles[puzzle].GRID_SIZE, Top.occupied_cells) # None
    /\ \E first \in Top.remaining_pieces :
       \E result \in {ScanPieces(puzzle,
               [Top EXCEPT !.current_piece_index = Max({@, first})],
               find_first_empty_cell(Puzzles[puzzle].GRID_SIZE, Top.occupied_cells)[1],
               seen_states)} :
           /\ result.pushed
           /\ seen_states' = seen_states \cup {result.canonical}
           /\ search_stack' = Popped \o <<result.partial, result.child>>
    /\ UNCHANGED <<puzzle, max_solutions, solutions, pc>>
    /\ UNCHANGED <<keyVars, previous, callVars, fileVars>>

\* PopAndPush pushing the child first and the parent on top of it.
PopAndPush_ChildFirst ==
    /\ pc = "search"
    /\ search_stack # <<>>
    /\ find_first_empty_cell(Puzzles[puzzle].GRID_SIZE, Top.occupied_cells) # None
    /\ \E result \in {ScanPieces(puzzle, Top,
               find_first_empty_cell(Puzzles[puzzle].GRID_SIZE, Top.occupied_cells)[1],
               seen_states)} :
           /\ result.pushed
           /\ seen_states' = seen_states \cup {result.canonical}
           /\ search_stack' = Popped \o <<result.child, result.partial>>
    /\ UNCHANGED <<puzzle, max_solutions, solutions, pc>>
    /\ UNCHANGED <<keyVars, previous, callVars, fileVars>>

\* PopAndPush without the insertion into seen_states.
PopAndPush_NoInsert ==
    /\ pc = "search"
    /\ search_stack # <<>>
    /\ find_first_empty_cell(Puzzles[puzzle].GRID_SIZE, Top.occupied_cells) # None
    /\ \E result \in {ScanPieces(puzzle, Top,
               find_first_empty_cell(Puzzles[puzzle].GRID_SIZE, Top.occupied_cells)[1],
               seen_states)} :
           /\ result.pushed
           /\ search_stack' = Popped \o <<result.partial, result.child>>
    /\ UNCHANGED <<puzzle, max_solutions, solutions, seen_states, pc>>
    /\ UNCHANGED <<keyVars, previous, callVars, fileVars>>

\* PopAndPush pushing the parent back with both cursors at zero.
PopAndPush_CursorsReset ==
    /\ pc = "search"
    /\ search_stack # <<>>
    /\ find_first_empty_cell(Puzzles[puzzle].GRID_SIZE, Top.occupied_cells) # None
    /\ \E result \in {ScanPieces(puzzle, Top,
               find_first_empty_cell(Puzzles[puzzle].GRID_SIZE, Top.occupied_cells)[1],
               seen_states)} :
           /\ result.pushed
           /\ seen_states' = seen_states \cup {result.canonical}
           /\ search_stack' = Popped \o <<[result.partial EXCEPT !.current_piece_index = 0,
                                                                  !.current_orientation_index = 0],
                                           result.child>>
    /\ UNCHANGED <<puzzle, max_solutions, solutions, pc>>
    /\ UNCHANGED <<keyVars, previous, callVars, fileVars>>

\* pop of an incomplete frame whose scan finds a fresh placement: the key is
\* inserted, the parent is pushed back with its cursors, then the child.
PopAndPush ==
    /\ pc = "search"
    /\ search_stack # <<>>
    /\ find_first_empty_cell(Puzzles[puzzle].GRID_SIZE, Top.occupied_cells) # None
    /\ \E result \in {ScanPieces(puzzle, Top,
               find_first_empty_cell(Puzzles[puzzle].GRID_SIZE, Top.occupied_cells)[1],
               seen_states)} :
           /\ result.pushed
           /\ seen_states' = seen_states \cup {result.canonical}
           /\ search_stack' = Popped \o <<result.partial, result.child>>
    /\ UNCHANGED <<puzzle, max_solutions, solutions, pc>>
    /\ UNCHANGED <<keyVars, previous, callVars, fileVars>>

\* PopAndDiscard pushing the exhausted frame back.
PopAndDiscard_Requeue ==
    /\ pc = "search"
    /\ search_stack # <<>>
    /\ find_first_empty_cell(Puzzles[puzzle].GRID_SIZE, Top.occupied_cells) # None
    /\ \E result \in {ScanPieces(puzzle, Top,
               find_first_empty_cell(Puzzles[puzzle].GRID_SIZE, Top.occupied_cells)[1],
               seen_states)} :
           /\ ~result.pushed
           /\ search_stack' = Popped \o <<result.partial>>
    /\ UNCHANGED <<puzzle, max_solutions, solutions, seen_states, pc>>
    /\ UNCHANGED <<keyVars, previous, callVars, fileVars>>

\* pop of an incomplete frame whose scan is exhausted: nothing is pushed.
PopAndDiscard ==
    /\ pc = "search"
    /\ search_stack # <<>>
    /\ find_first_empty_cell(Puzzles[puzzle].GRID_SIZE, Top.occupied_cells) # None
    /\ \E result \in {ScanPieces(puzzle, Top,
               find_first_empty_cell(Puzzles[puzzle].GRID_SIZE, Top.occupied_cells)[1],
               seen_states)} :
           ~result.pushed
    /\ search_stack' = Popped
    /\ UNCHANGED <<puzzle, max_solutions, solutions, seen_states, pc>>
    /\ UNCHANGED <<keyVars, previous, callVars, fileVars>>

\* the stack is empty: the while loop ends and solutions is returned.
ReturnSolutions ==
    /\ pc = "search"
    /\ search_stack = <<>>
    /\ pc' = "done"
    /\ UNCHANGED <<puzzle, max_solutions, search_stack, solutions, seen_states>>
    /\ UNCHANGED <<keyVars, previous, callVars, fileVars>>

Next ==
    \/ RecordSolution
    \/ RecordSolutionAndReturn
    \/ PopAndPush
    \/ PopAndDiscard
    \/ ReturnSolutions

Spec == Init /\ [][Next]_vars

LossSpec == LossInit /\ [][Next]_vars

\* solve has returned and is called a second time on the same puzzle
\* definition with the same cap; the first list is kept for comparison.
SolveAgain ==
    /\ pc = "done"
    /\ previous = None
    /\ previous' = Some(solutions)
    /\ search_stack' = <<InitialFrame(Puzzles[puzzle])>>
    /\ solutions' = <<>>
    /\ seen_states' = {}
    /\ pc' = "search"
    /\ UNCHANGED <<puzzle, max_solutions>>
    /\ UNCHANGED <<keyVars, callVars, fileVars>>

AgainNext ==
    \/ Next
    \/ SolveAgain

AgainSpec == Init /\ [][AgainNext]_vars

\* solve has been called on a puzzle Puzzle::new accepted, for the given
\* (puzzle, cap) pairs; the placement table is not built yet.
CalledInit(calls) ==
    /\ \E c \in calls : puzzle = c[1] /\ max_solutions = c[2]
    /\ PuzzleNewAccepts(Puzzles[puzzle])
    /\ search_stack = <<>>
    /\ solutions = <<>>
    /\ seen_states = {}
    /\ pc = "called"
    /\ previous = None
    /\ KeyIdle
    /\ CallIdle
    /\ FileIdle

\* The 2x2x2 puzzles and the puzzles with an empty piece, no pieces, too
\* many cubes, too few cubes and no cells, uncapped and with cap 1.
ValidatedInit == CalledInit({1, 2, 4, 5, 6, 7, 8} \X {None, Some(1)})

\* build_placement_table returns: the stack is set up with the initial frame.
EnterSearch ==
    /\ pc = "called"
    /\ ~build_placement_table_panics(Puzzles[puzzle].pieces)
    /\ search_stack' = <<InitialFrame(Puzzles[puzzle])>>
    /\ pc' = "search"
    /\ UNCHANGED <<puzzle, max_solutions, solutions, seen_states>>
    /\ UNCHANGED <<keyVars, previous, callVars, fileVars>>

\* build_placement_table panics: solve unwinds without returning a list.
PanicInBuild ==
    /\ pc = "called"
    /\ build_placement_table_panics(Puzzles[puzzle].pieces)
    /\ pc' = "panicked"
    /\ UNCHANGED <<puzzle, max_solutions, search_stack, solutions, seen_states>>
    /\ UNCHANGED <<keyVars, previous, callVars, fileVars>>

ValidatedNext ==
    \/ EnterSearch
    \/ PanicInBuild
    \/ Next

ValidatedSpec == ValidatedInit /\ [][ValidatedNext]_vars

(***************************************************************************)
(* find_first_empty_cell applied on its own to a drawn mask, beside the    *)
(* searches of Spec.                                                       *)
(***************************************************************************)
\* Cell counts of the grids whose every mask is drawn.
SmallGrids == {0, 1, 8}

\* Cell counts of the grids of which the masks 0..k-1, alone or with one
\* higher cell, are drawn.
LargeGrids == {27, 64}

DrawnMasks(g) ==
    IF g \in SmallGrids THEN SUBSET (0..(g - 1))
    ELSE {0..(k - 1) : k \in 0..g}
         \cup {(0..(k - 1)) \cup {h} : k \in 0..g, h \in 0..(g - 1)}

MaskInit ==
    /\ SolverIdle
    /\ KeyIdle
    /\ previous = None
    /\ FileIdle
    /\ invoked \in UNION {{[fn |-> "find_first_empty_cell", GRID_SIZE |-> g, occupied |-> m] :
                              m \in DrawnMasks(g)} : g \in SmallGrids \cup LargeGrids}
    /\ returned = <<>>

\* find_first_empty_cell is evaluated on the drawn mask.
FindFirstEmptyCellCall ==
    /\ invoked.fn = "find_first_empty_cell"
    /\ returned = <<>>
    /\ returned' = <<find_first_empty_cell(invoked.GRID_SIZE, invoked.occupied)>>
    /\ UNCHANGED invoked
    /\ UNCHANGED <<solverVars, keyVars, previous, fileVars>>

TargetInit == Init \/ MaskInit

TargetNext ==
    \/ Next
    \/ FindFirstEmptyCellCall

TargetSpec == TargetInit /\ [][TargetNext]_vars

(***************************************************************************)
(* canonical_key as a function of an arrangement: the arrangement is drawn *)
(* from a bounded set, transformed once, and keyed before and after.       *)
(***************************************************************************)
ScrewB == <<(<<0, 0, 0>>), (<<1, 0, 0>>), (<<0, 1, 0>>), (<<0, 1, 1>>)>>

\* Grid shapes and chiral declarations canonical_key is applied with.
KeyPuzzles == <<
    [DIM |-> 2, GRID_SIZE |-> 8, NUM_PIECES |-> 3,
     pieces |-> <<ScrewA, ScrewB, Monomino>>, chiral_pair |-> None],
    [DIM |-> 2, GRID_SIZE |-> 8, NUM_PIECES |-> 3,
     pieces |-> <<ScrewA, ScrewB, Monomino>>, chiral_pair |-> Some(<<0, 1>>)],
    [DIM |-> 3, GRID_SIZE |-> 27, NUM_PIECES |-> 3,
     pieces |-> <<ScrewA, ScrewB, Monomino>>, chiral_pair |-> None],
    [DIM |-> 3, GRID_SIZE |-> 27, NUM_PIECES |-> 3,
     pieces |-> <<ScrewA, ScrewB, Monomino>>, chiral_pair |-> Some(<<0, 1>>)]
    >>

KeyPlacementTables ==
    [i \in DOMAIN KeyPuzzles |->
        build_placement_table(KeyPuzzles[i].DIM, KeyPuzzles[i].GRID_SIZE, KeyPuzzles[i].pieces)]

\* Highest target cell whose screw placements are drawn.
MaxKeyTarget == 0

Placed(piece_index, placement) ==
    [piece_index |-> piece_index,
     positions |-> placement.cube_positions,
     cube_count |-> placement.cube_count]

\* Highest cell the single cube is drawn on.
MaxKeyCell == 8

\* One screw of either handedness, as piece 0 or as piece 1, over a target cell.
KeyScrews(kp) ==
    {Placed(q[1], KeyPlacementTables[kp][q[2] + 1][q[3] + 1][q[4]]) :
        q \in {q \in (0..1) \X (0..1) \X (0..MaxKeyTarget) \X (1..(MAX_CUBES * NUM_ROTATIONS)) :
                  q[4] <= Len(KeyPlacementTables[kp][q[2] + 1][q[3] + 1])}}

\* The monomino (piece 2) on one of the first cells.
KeyMonominoes(kp) ==
    {Placed(2, KeyPlacementTables[kp][3][t + 1][1]) :
        t \in 0..Min({MaxKeyCell, KeyPuzzles[kp].GRID_SIZE - 1})}

\* A screw alone, or a screw then the monomino (which may overwrite a cell).
KeyInputs(kp) ==
    {<<s>> : s \in KeyScrews(kp)}
        \cup {<<s, m>> : s \in KeyScrews(kp), m \in KeyMonominoes(kp)}

\* A cube position turned by ROTATIONS[r] about the grid centre.
RotateAboutCentre(DIM, r, c) ==
    LET t == ROTATIONS(r, <<2 * c[1] - (DIM - 1), 2 * c[2] - (DIM - 1), 2 * c[3] - (DIM - 1)>>)
    IN  <<(t[1] + DIM - 1) \div 2, (t[2] + DIM - 1) \div 2, (t[3] + DIM - 1) \div 2>>

\* Every valid cube position of every placed piece turned by ROTATIONS[r].
RotateCubes(DIM, r, arr) ==
    [i \in DOMAIN arr |->
        [arr[i] EXCEPT !.positions =
            [k \in DOMAIN @ |->
                IF k <= arr[i].cube_count THEN RotateAboutCentre(DIM, r, @[k]) ELSE @[k]]]]

\* Every valid cube position of every placed piece mirrored across x.
MirrorCubes(DIM, arr) ==
    [i \in DOMAIN arr |->
        [arr[i] EXCEPT !.positions =
            [k \in DOMAIN @ |->
                IF k <= arr[i].cube_count THEN <<DIM - 1 - @[k][1], @[k][2], @[k][3]>> ELSE @[k]]]]

\* The piece ids a and b exchanged.
ExchangeIds(arr, pair) ==
    [i \in DOMAIN arr |->
        [arr[i] EXCEPT !.piece_index =
            IF @ = pair[1] THEN pair[2] ELSE IF @ = pair[2] THEN pair[1] ELSE @]]

KeyOf(kp, arr) == canonical_key(KeyPuzzles[kp].DIM, arr, KeyPuzzles[kp].chiral_pair)

KeyInit ==
    /\ SolverIdle
    /\ previous = None
    /\ CallIdle
    /\ FileIdle
    /\ k_puzzle \in DOMAIN KeyPuzzles
    /\ k_orig \in KeyInputs(k_puzzle)
    /\ k_arr = k_orig
    /\ k_key0 = <<>>
    /\ k_key = <<>>
    /\ k_op = "drawn"

\* canonical_key of the drawn arrangement.
KeyCanonical ==
    /\ k_op = "drawn"
    /\ k_key0' = KeyOf(k_puzzle, k_orig)
    /\ k_key' = k_key0'
    /\ k_op' = "keyed"
    /\ UNCHANGED <<k_puzzle, k_orig, k_arr>>
    /\ UNCHANGED <<solverVars, previous, callVars, fileVars>>

\* Every cube position rotated by one of the 24 rotations, ids unchanged.
KeyRotate ==
    /\ k_op = "keyed"
    /\ \E r \in 0..(NUM_ROTATIONS - 1) :
          k_arr' = RotateCubes(KeyPuzzles[k_puzzle].DIM, r, k_orig)
    /\ k_key' = KeyOf(k_puzzle, k_arr')
    /\ k_op' = "rotated"
    /\ UNCHANGED <<k_puzzle, k_orig, k_key0>>
    /\ UNCHANGED <<solverVars, previous, callVars, fileVars>>

\* Every cube position mirrored across x and the chiral ids exchanged.
KeyMirror ==
    /\ k_op = "keyed"
    /\ KeyPuzzles[k_puzzle].chiral_pair # None
    /\ k_arr' = ExchangeIds(MirrorCubes(KeyPuzzles[k_puzzle].DIM, k_orig),
                            KeyPuzzles[k_puzzle].chiral_pair[1])
    /\ k_key' = KeyOf(k_puzzle, k_arr')
    /\ k_op' = "mirrored"
    /\ UNCHANGED <<k_puzzle, k_orig, k_key0>>
    /\ UNCHANGED <<solverVars, previous, callVars, fileVars>>

\* A second, unrelated single-screw arrangement keyed beside the first.
KeyReplace ==
    /\ k_op = "keyed"
    /\ Len(k_orig) = 1
    /\ \E other \in KeyScrews(k_puzzle) : k_arr' = <<other>>
    /\ k_key' = KeyOf(k_puzzle, k_arr')
    /\ k_op' = "replaced"
    /\ UNCHANGED <<k_puzzle, k_orig, k_key0>>
    /\ UNCHANGED <<solverVars, previous, callVars, fileVars>>

KeyNext ==
    \/ KeyCanonical
    \/ KeyRotate
    \/ KeyMirror
    \/ KeyReplace

KeySpec == KeyInit /\ [][KeyNext]_vars

KeyDim == KeyPuzzles[k_puzzle].DIM

KeyPair == KeyPuzzles[k_puzzle].chiral_pair

\* The grid whose cell at c holds what g holds at the cell ROTATIONS[r]
\* carries c to (about the grid centre).
RotatedGrid(DIM, r, g) ==
    LET from(cell) == LET t == RotateAboutCentre(DIM, r, idx_to_coord(DIM, cell))
                      IN  coord_to_idx(DIM, t[1], t[2], t[3])
    IN  [c \in 1..Len(g) |-> g[from(c - 1) + 1]]

\* The grid mirrored across x.
MirroredGrid(DIM, g) ==
    LET from(cell) == LET t == idx_to_coord(DIM, cell)
                      IN  coord_to_idx(DIM, DIM - 1 - t[1], t[2], t[3])
    IN  [c \in 1..Len(g) |-> g[from(c - 1) + 1]]

\* The bytes of the declared pair exchanged (nothing exchanged without a pair).
ExchangedGrid(pair, g) ==
    IF pair = None THEN g
    ELSE [c \in 1..Len(g) |->
            IF g[c] = pair[1][1] + 1 THEN pair[1][2] + 1
            ELSE IF g[c] = pair[1][2] + 1 THEN pair[1][1] + 1
            ELSE g[c]]

\* h is g turned by one of the 24 rotations, or the mirror image of g with
\* the pair's ids exchanged turned by one of them.
Related(DIM, pair, g, h) ==
    \E r \in 0..(NUM_ROTATIONS - 1) :
        \/ h = RotatedGrid(DIM, r, g)
        \/ h = RotatedGrid(DIM, r, ExchangedGrid(pair, MirroredGrid(DIM, g)))

\* C5: rotating every cube position of an arrangement by any of the 24
\* rotations about the grid centre, piece indices unchanged, leaves
\* canonical_key byte-equal, for DIM 2 and 3, with and without a chiral pair.
C5_RotationInvariant == k_op = "rotated" => k_key = k_key0

\* A two-piece arrangement in the 3x3x3 grid was rotated into a different grid.
C5_Witness ==
    /\ k_op = "rotated"
    /\ KeyDim = 3
    /\ Len(k_orig) = 2
    /\ solution_to_grid(KeyDim, k_arr) # solution_to_grid(KeyDim, k_orig)
    /\ k_key = k_key0

\* C6: with a declared chiral pair (a, b), mirroring every cube position
\* across x and exchanging the ids a and b leaves canonical_key byte-equal.
C6_MirrorSwapInvariant == k_op = "mirrored" => k_key = k_key0

\* A screw was mirrored into an arrangement no rotation alone relates to it.
C6_Witness ==
    /\ k_op = "mirrored"
    /\ k_key = k_key0
    /\ find_smallest_rotation(KeyDim, solution_to_grid(KeyDim, k_arr))
          # find_smallest_rotation(KeyDim, solution_to_grid(KeyDim, k_orig))

C8_NoReflectionWithoutPair ==
    (k_op = "keyed" /\ KeyPair = None)
        => k_key0 = find_smallest_rotation(KeyDim, solution_to_grid(KeyDim, k_orig))

(***************************************************************************)
(* persistence.rs                                                          *)
(*                                                                         *)
(* The file is the sequence of its bytes; a read position is the 1-based   *)
(* index of the next unread byte.                                          *)
(***************************************************************************)
\* b"BLKR"
FILE_MAGIC == <<66, 76, 75, 82>>

FILE_VERSION == 1

\* The bytes successive write_all calls leave in the file.
RECURSIVE Concat(_)
Concat(chunks) ==
    IF chunks = <<>> THEN <<>> ELSE Head(chunks) \o Concat(Tail(chunks))

\* (v as u32).to_le_bytes()
to_le_bytes(v) ==
    <<v % 256, (v \div 256) % 256, (v \div 65536) % 256, (v \div 16777216) % 256>>

save_binary(DIM, GRID_SIZE, NUM_PIECES, saved) ==
    LET placed_bytes(placed) ==
            to_le_bytes(placed.piece_index)
            \o to_le_bytes(placed.cube_count)
            \o Concat(Arr([k \in 1..placed.cube_count |->
                   <<placed.positions[k][1] % 256, placed.positions[k][2] % 256,
                     placed.positions[k][3] % 256>>]))
        solution_bytes(solution) ==
            to_le_bytes(Len(solution))
            \o Concat(Arr([i \in DOMAIN solution |-> placed_bytes(solution[i])]))
    IN  FILE_MAGIC
        \o <<FILE_VERSION, DIM % 256, GRID_SIZE % 256, NUM_PIECES % 256>>
        \o to_le_bytes(Len(saved))
        \o Concat(Arr([s \in DOMAIN saved |-> solution_bytes(saved[s])]))

\* read_u32 taking the first byte for the value.
read_u32_LowByte(bytes, pos) ==
    IF pos + 3 > Len(bytes) THEN None ELSE Some(bytes[pos])

\* read_exact of 4 bytes at pos, then u32::from_le_bytes.
read_u32(bytes, pos) ==
    IF pos + 3 > Len(bytes) THEN None
    ELSE Some(bytes[pos] + 256 * bytes[pos + 1] + 65536 * bytes[pos + 2]
              + 16777216 * bytes[pos + 3])

\* The piece bitmask with bits 0..num_pieces-1 set.
expected_piece_mask(num_pieces) == 0..(num_pieces - 1)

RECURSIVE ReadPieces(_, _, _, _, _, _, _)
\* The loop over the pieces of one solution record with left iterations to
\* go: None as soon as a read or a check fails, else the position after the
\* record with the pieces seen and the solution built.
ReadPieces(DIM, NUM_PIECES, bytes, pos, left, seen_pieces, solution) ==
    IF left = 0
    THEN Some([pos |-> pos, seen_pieces |-> seen_pieces, solution |-> solution])
    ELSE LET piece_index == read_u32(bytes, pos)
             cube_count == read_u32(bytes, pos + 4)
             \* the i-th cube: read_exact of 3 bytes, then the bounds check
             cube(i) ==
                 LET at == pos + 8 + 3 * (i - 1)
                 IN  IF at + 2 > Len(bytes) THEN None
                     ELSE IF bytes[at] >= DIM \/ bytes[at + 1] >= DIM \/ bytes[at + 2] >= DIM
                          THEN None
                          ELSE Some(<<bytes[at], bytes[at + 1], bytes[at + 2]>>)
         IN  IF piece_index = None THEN None
             ELSE IF piece_index[1] >= NUM_PIECES THEN None
             ELSE IF piece_index[1] \in seen_pieces THEN None
             ELSE IF cube_count = None THEN None
             ELSE IF cube_count[1] = 0 \/ cube_count[1] > MAX_CUBES THEN None
             ELSE IF \E i \in 1..cube_count[1] : cube(i) = None THEN None
             ELSE ReadPieces(DIM, NUM_PIECES, bytes, pos + 8 + 3 * cube_count[1], left - 1,
                      seen_pieces \cup {piece_index[1]},
                      Append(solution,
                          [piece_index |-> piece_index[1],
                           positions |-> Arr([k \in 1..MAX_CUBES |->
                               IF k <= cube_count[1] THEN cube(k)[1] ELSE <<0, 0, 0>>]),
                           cube_count |-> cube_count[1] % 256]))

RECURSIVE ReadSolutions(_, _, _, _, _, _)
\* The loop over the solution records with left iterations to go.
ReadSolutions(DIM, NUM_PIECES, bytes, pos, left, parsed) ==
    IF left = 0 THEN Some(parsed)
    ELSE LET piece_count == read_u32(bytes, pos)
             record == ReadPieces(DIM, NUM_PIECES, bytes, pos + 4, piece_count[1], {}, <<>>)
         IN  IF piece_count = None THEN None
             ELSE IF piece_count[1] # NUM_PIECES THEN None
             ELSE IF record = None THEN None
             ELSE IF record[1].seen_pieces # expected_piece_mask(NUM_PIECES) THEN None
             ELSE ReadSolutions(DIM, NUM_PIECES, bytes, record[1].pos, left - 1,
                      Append(parsed, record[1].solution))

parse_solutions(DIM, NUM_PIECES, bytes, pos, solution_count) ==
    ReadSolutions(DIM, NUM_PIECES, bytes, pos, solution_count, <<>>)

\* stored is None when solutions.bin does not exist.
load_all(DIM, GRID_SIZE, NUM_PIECES, stored) ==
    IF stored = None THEN None
    ELSE IF Len(stored[1]) < 4 THEN None
    ELSE IF SubSeq(stored[1], 1, 4) = FILE_MAGIC
         THEN IF Len(stored[1]) < 8 THEN None
              ELSE IF \/ stored[1][5] # FILE_VERSION
                      \/ stored[1][6] # DIM
                      \/ stored[1][7] # GRID_SIZE
                      \/ stored[1][8] # NUM_PIECES
                   THEN None
                   ELSE IF read_u32(stored[1], 9) = None THEN None
                        ELSE parse_solutions(DIM, NUM_PIECES, stored[1], 13,
                                 read_u32(stored[1], 9)[1])
         \* legacy format: the prefix is the solution count
         ELSE parse_solutions(DIM, NUM_PIECES, stored[1], 5, read_u32(stored[1], 1)[1])

\* stored is None when solutions.bin does not exist.
count(DIM, GRID_SIZE, NUM_PIECES, stored) ==
    IF stored = None THEN None
    ELSE IF Len(stored[1]) < 4 THEN None
    ELSE IF SubSeq(stored[1], 1, 4) = FILE_MAGIC
         THEN IF Len(stored[1]) < 8 THEN None
              ELSE IF \/ stored[1][5] # FILE_VERSION
                      \/ stored[1][6] # DIM
                      \/ stored[1][7] # GRID_SIZE
                      \/ stored[1][8] # NUM_PIECES
                   THEN None
                   \* the solution count field, as read
                   ELSE read_u32(stored[1], 9)
         \* legacy format: the records are parsed and counted
         ELSE Bound({IF parsed = None THEN None ELSE Some(Len(parsed[1])) :
                        parsed \in {parse_solutions(DIM, NUM_PIECES, stored[1], 5,
                                                    read_u32(stored[1], 1)[1])}})

\* The searches whose result is saved: the 2x2x2 puzzles, nine cubes for
\* eight cells, six cubes for eight cells, no cells; uncapped and with cap 1.
SaveInit == SolveInit({1, 2, 6, 7, 8} \X {None, Some(1)})

\* solve has returned and save_binary writes its list to solutions.bin.
SaveBinary ==
    /\ pc = "done"
    /\ file = None
    /\ file' = Some(save_binary(Puzzles[puzzle].DIM, Puzzles[puzzle].GRID_SIZE,
                                Puzzles[puzzle].NUM_PIECES, solutions))
    /\ UNCHANGED loaded
    /\ UNCHANGED <<solverVars, keyVars, previous, callVars>>

\* load_all with the puzzle's DIM, GRID_SIZE and NUM_PIECES reads the file.
LoadAll ==
    /\ pc = "done"
    /\ file # None
    /\ loaded = <<>>
    /\ loaded' = <<load_all(Puzzles[puzzle].DIM, Puzzles[puzzle].GRID_SIZE,
                            Puzzles[puzzle].NUM_PIECES, file)>>
    /\ UNCHANGED file
    /\ UNCHANGED <<solverVars, keyVars, previous, callVars>>

SaveNext ==
    \/ Next
    \/ SaveBinary
    \/ LoadAll

SaveSpec == SaveInit /\ [][SaveNext]_vars

\* C19: saving the list solve returned (the empty list included) and
\* loading it with the same DIM, GRID_SIZE and NUM_PIECES returns Some(list)
\* with the same solutions in the same order, each with the same piece
\* indices, cube counts and cube coordinates.
C19_RoundTrip == loaded # <<>> => loaded[1] = Some(solutions)

\* The file with the given fields in the layout load_all reads (magic and
\* header unless legacy, solution count, then per record its piece count and
\* per piece its index, cube count and cubes), its last cut bytes missing.
FileOf(f) ==
    LET piece_bytes(p) ==
            to_le_bytes(p.piece_index) \o to_le_bytes(p.cube_count) \o Concat(p.cubes)
        record_bytes(r) ==
            to_le_bytes(r.piece_count)
            \o Concat(Arr([i \in DOMAIN r.pieces |-> piece_bytes(r.pieces[i])]))
        whole ==
            (IF f.legacy THEN <<>>
             ELSE FILE_MAGIC \o <<f.version, f.dim, f.grid_size, f.piece_count>>)
            \o to_le_bytes(Len(f.records))
            \o Concat(Arr([s \in DOMAIN f.records |-> record_bytes(f.records[s])]))
    IN  SubSeq(whole, 1, Len(whole) - f.cut)

\* A well-formed file of two solutions for DIM 2, GRID_SIZE 8, NUM_PIECES 2.
IntactFile ==
    [legacy |-> FALSE, version |-> FILE_VERSION, dim |-> 2, grid_size |-> 8, piece_count |-> 2,
     records |-> <<
        [piece_count |-> 2,
         pieces |-> <<[piece_index |-> 0, cube_count |-> 2,
                       cubes |-> <<(<<0, 0, 0>>), (<<1, 0, 0>>)>>],
                      [piece_index |-> 1, cube_count |-> 1,
                       cubes |-> <<(<<0, 1, 0>>)>>]>>],
        [piece_count |-> 2,
         pieces |-> <<[piece_index |-> 1, cube_count |-> 1,
                       cubes |-> <<(<<1, 1, 1>>)>>],
                      [piece_index |-> 0, cube_count |-> 2,
                       cubes |-> <<(<<0, 0, 1>>), (<<0, 1, 1>>)>>]>>]>>,
     cut |-> 0]

\* f with one field rewritten, or with some of its last bytes missing.
Damaged(f) ==
    {[f EXCEPT !.version = v] : v \in {0, 2}}
    \cup {[f EXCEPT !.dim = v] : v \in {1, 3}}
    \cup {[f EXCEPT !.grid_size = v] : v \in {1, 27}}
    \cup {[f EXCEPT !.piece_count = v] : v \in {1, 3}}
    \cup {[f EXCEPT !.records[q[1]].piece_count = q[2]] :
             q \in (DOMAIN f.records) \X {1, 3}}
    \cup {[f EXCEPT !.records[q[1]].pieces[q[2]].piece_index = q[3]] :
             q \in {q \in (DOMAIN f.records) \X (1..2) \X {0, 1, 2, 3, 256} :
                       q[2] \in DOMAIN f.records[q[1]].pieces}}
    \cup {[f EXCEPT !.records[q[1]].pieces[q[2]].cube_count = q[3]] :
             q \in {q \in (DOMAIN f.records) \X (1..2) \X {0, MAX_CUBES + 1} :
                       q[2] \in DOMAIN f.records[q[1]].pieces}}
    \cup {[f EXCEPT !.records[q[1]].pieces[q[2]].cubes[q[3]][q[4]] = q[5]] :
             q \in {q \in (DOMAIN f.records) \X (1..2) \X (1..MAX_CUBES) \X (1..3) \X {2, 3, 255} :
                       /\ q[2] \in DOMAIN f.records[q[1]].pieces
                       /\ q[3] \in DOMAIN f.records[q[1]].pieces[q[2]].cubes}}
    \cup {[f EXCEPT !.cut = c] : c \in 1..Len(FileOf(f))}

\* The intact file in the current and in the legacy format, and each damaged.
LoadFiles ==
    {IntactFile, [IntactFile EXCEPT !.legacy = TRUE]}
    \cup Damaged(IntactFile)
    \cup Damaged([IntactFile EXCEPT !.legacy = TRUE])

LoadInit ==
    /\ SolverIdle
    /\ KeyIdle
    /\ previous = None
    /\ invoked \in {[fn |-> "load_all", DIM |-> 2, GRID_SIZE |-> 8, NUM_PIECES |-> 2,
                      written |-> f] : f \in LoadFiles}
    /\ returned = <<>>
    /\ file = Some(FileOf(invoked.written))
    /\ loaded = <<>>

\* load_all::<DIM, GRID_SIZE, NUM_PIECES>() reads the file.
LoadAllCall ==
    /\ invoked.fn = "load_all"
    /\ loaded = <<>>
    /\ loaded' = <<load_all(invoked.DIM, invoked.GRID_SIZE, invoked.NUM_PIECES, file)>>
    /\ UNCHANGED file
    /\ UNCHANGED <<solverVars, keyVars, previous, callVars>>

LoadSpec == LoadInit /\ [][LoadAllCall]_vars

\* One of the defects of a file read with the given DIM, GRID_SIZE, NUM_PIECES.
FileDefect(shape, f) ==
    \/ /\ ~f.legacy
       /\ \/ f.version # FILE_VERSION
          \/ f.dim # shape.DIM
          \/ f.grid_size # shape.GRID_SIZE
          \/ f.piece_count # shape.NUM_PIECES
    \/ \E s \in DOMAIN f.records :
          \/ f.records[s].piece_count # shape.NUM_PIECES
          \/ \E p \in DOMAIN f.records[s].pieces :
                \/ f.records[s].pieces[p].piece_index >= shape.NUM_PIECES
                \/ f.records[s].pieces[p].cube_count = 0
                \/ f.records[s].pieces[p].cube_count > MAX_CUBES
                \/ \E k \in DOMAIN f.records[s].pieces[p].cubes : \E a \in 1..3 :
                      f.records[s].pieces[p].cubes[k][a] >= shape.DIM
                \/ \E q \in DOMAIN f.records[s].pieces :
                      p # q /\ f.records[s].pieces[p].piece_index
                                  = f.records[s].pieces[q].piece_index
          \/ \E i \in 0..(shape.NUM_PIECES - 1) :
                \A p \in DOMAIN f.records[s].pieces : f.records[s].pieces[p].piece_index # i
    \/ f.cut > 0

\* C20: load_all returns None, never a list of the solutions parsed so far,
\* when the header's version, dimension, cell count or piece count differs
\* from the puzzle's, or a solution record has a piece count other than
\* NUM_PIECES, a piece index >= NUM_PIECES, a repeated piece index, a missing
\* piece, a cube count of 0 or above MAX_CUBES, a cube coordinate >= DIM, or
\* the file is truncated.
C20_AllOrNothing ==
    (invoked.fn = "load_all" /\ loaded # <<>> /\ FileDefect(invoked, invoked.written))
        => loaded[1] = None

\* A file whose first record is intact and whose second record repeats a
\* piece index was read, and nothing was returned.
C20_Witness ==
    /\ invoked.fn = "load_all"
    /\ loaded = <<None>>
    /\ ~invoked.written.legacy
    /\ invoked.written.cut = 0
    /\ invoked.written.records[1] = IntactFile.records[1]
    /\ invoked.written.records[2].pieces[1].piece_index = 1
    /\ invoked.written.records[2].pieces[2].piece_index = 1

CountInit ==
    /\ SolverIdle
    /\ KeyIdle
    /\ previous = None
    /\ invoked \in {[fn |-> "count", DIM |-> 2, GRID_SIZE |-> 8, NUM_PIECES |-> 2,
                      written |-> f] : f \in LoadFiles}
    /\ returned = <<>>
    /\ file = Some(FileOf(invoked.written))
    /\ loaded = <<>>

\* count::<DIM, GRID_SIZE, NUM_PIECES>() reads the file.
CountCall ==
    /\ invoked.fn = "count"
    /\ returned = <<>>
    /\ returned' = <<count(invoked.DIM, invoked.GRID_SIZE, invoked.NUM_PIECES, file)>>
    /\ UNCHANGED invoked
    /\ UNCHANGED <<solverVars, keyVars, previous, fileVars>>

\* load_all with the same DIM, GRID_SIZE and NUM_PIECES reads the same file.
LoadAllBesideCount ==
    /\ invoked.fn = "count"
    /\ loaded = <<>>
    /\ loaded' = <<load_all(invoked.DIM, invoked.GRID_SIZE, invoked.NUM_PIECES, file)>>
    /\ UNCHANGED file
    /\ UNCHANGED <<solverVars, keyVars, previous, callVars>>

CountNext ==
    \/ CountCall
    \/ LoadAllBesideCount

CountSpec == CountInit /\ [][CountNext]_vars

\* C28: for the same DIM, GRID_SIZE and NUM_PIECES and the same file, count
\* returns Some(n) if and only if load_all returns Some(list) with exactly n
\* solutions, and count returns None whenever load_all returns None (files of
\* the current headered format with truncated or invalid records included).
C28_CountAgreesWithLoad ==
    (invoked.fn = "count" /\ returned # <<>> /\ loaded # <<>>)
        => returned[1] = IF loaded[1] = None THEN None ELSE Some(Len(loaded[1][1]))

(***************************************************************************)
(* Puzzle::new applied to a definition drawn from a bounded set.           *)
(***************************************************************************)
\* Largest DIM a definition is drawn with.
MaxNewDim == 5

\* A piece of n cubes in a row.
Straight(n) == [i \in 1..n |-> <<i - 1, 0, 0>>]

\* Piece lists of 0, 1, 2, 32 and 33 pieces: all pieces of one size (no
\* cubes, one cube, MAX_CUBES, MAX_CUBES + 1), or only the last one too large.
NewPieceLists ==
    {[i \in 1..n |-> Straight(c)] :
        n \in {0, 1, 2, 32, 33}, c \in {0, 1, MAX_CUBES, MAX_CUBES + 1}}
    \cup {[i \in 1..n |-> IF i = n THEN Straight(MAX_CUBES + 1) ELSE Straight(1)] :
            n \in {2, 32}}

\* DIM, the cubes of the DIMs and 65 as GRID_SIZE, NUM_PIECES around 32.
NewDefinitions ==
    [DIM : 0..MaxNewDim,
     GRID_SIZE : {d * d * d : d \in 0..MaxNewDim} \cup {65},
     NUM_PIECES : {0, 1, 2, 32, 33},
     pieces : NewPieceLists,
     chiral_pair : {None, Some(<<0, 1>>)}]

NewInit ==
    /\ SolverIdle
    /\ KeyIdle
    /\ previous = None
    /\ FileIdle
    /\ invoked \in {[fn |-> "Puzzle::new", def |-> d] : d \in NewDefinitions}
    /\ returned = <<>>

\* Puzzle::new is evaluated on the drawn definition.
PuzzleNewCall ==
    /\ invoked.fn = "Puzzle::new"
    /\ returned = <<>>
    /\ returned' = <<PuzzleNew(invoked.def)>>
    /\ UNCHANGED invoked
    /\ UNCHANGED <<solverVars, keyVars, previous, fileVars>>

NewSpec == NewInit /\ [][PuzzleNewCall]_vars

\* One of the five defects of a definition.
NewDefect(def) ==
    \/ def.DIM * def.DIM * def.DIM # def.GRID_SIZE
    \/ Len(def.pieces) # def.NUM_PIECES
    \/ \E i \in DOMAIN def.pieces : Len(def.pieces[i]) > MAX_CUBES
    \/ def.GRID_SIZE > 64
    \/ def.NUM_PIECES > 32

\* C13: Puzzle::new produces no Puzzle value for a definition in which
\* DIM^3 differs from GRID_SIZE, the piece list length differs from
\* NUM_PIECES, a piece has more than MAX_CUBES cubes, GRID_SIZE exceeds 64
\* or NUM_PIECES exceeds 32; any other definition is accepted with its piece
\* list and chiral pair stored unchanged.
C13_RejectsExactlyDefects ==
    (invoked.fn = "Puzzle::new" /\ returned # <<>>)
        => returned[1] = IF NewDefect(invoked.def) THEN None
                         ELSE Some([pieces |-> invoked.def.pieces,
                                    chiral_pair |-> invoked.def.chiral_pair])

\* A 4x4x4 definition of 32 pieces was rejected for its last piece alone.
C13_Witness ==
    /\ invoked.fn = "Puzzle::new"
    /\ returned = <<None>>
    /\ invoked.def.DIM = 4
    /\ invoked.def.GRID_SIZE = 64
    /\ invoked.def.NUM_PIECES = 32
    /\ Len(invoked.def.pieces) = 32
    /\ \A i \in 1..31 : Len(invoked.def.pieces[i]) = 1
    /\ Len(invoked.def.pieces[32]) = MAX_CUBES + 1

(***************************************************************************)
(* all_orientations applied to a piece drawn from a bounded set.           *)
(***************************************************************************)
\* The seven Soma pieces.
PIECES == <<
    <<(<<0, 0, 0>>), (<<1, 0, 0>>), (<<2, 0, 0>>), (<<0, 1, 0>>)>>,
    <<(<<0, 0, 0>>), (<<1, 0, 0>>), (<<2, 0, 0>>), (<<1, 1, 0>>)>>,
    <<(<<0, 0, 0>>), (<<1, 0, 0>>), (<<1, 1, 0>>), (<<2, 1, 0>>)>>,
    <<(<<0, 0, 0>>), (<<1, 0, 0>>), (<<0, 1, 0>>)>>,
    <<(<<0, 0, 0>>), (<<1, 0, 0>>), (<<0, 1, 0>>), (<<1, 0, 1>>)>>,
    <<(<<0, 0, 0>>), (<<1, 0, 0>>), (<<0, 1, 0>>), (<<0, 0, 1>>)>>,
    <<(<<0, 0, 0>>), (<<1, 0, 0>>), (<<0, 1, 0>>), (<<0, 1, 1>>)>>
    >>

\* Most cubes of a drawn piece.
MaxPieceCubes == 2

\* Largest coordinate of a drawn piece.
MaxPieceCoord == 1

\* Every list of 1..MaxPieceCubes different cubes with coordinates in
\* 0..MaxPieceCoord (normalized or not), and the Soma pieces.
DrawnPieces ==
    {Arr(p) : p \in {q \in UNION {[1..n -> (0..MaxPieceCoord) \X (0..MaxPieceCoord)
                                                  \X (0..MaxPieceCoord)] :
                                     n \in 1..MaxPieceCubes} :
                        \A i, j \in DOMAIN q : i # j => q[i] # q[j]}}
    \cup {PIECES[i] : i \in DOMAIN PIECES}

OrientInit ==
    /\ SolverIdle
    /\ KeyIdle
    /\ previous = None
    /\ FileIdle
    /\ invoked \in {[fn |-> "all_orientations", piece |-> p] : p \in DrawnPieces}
    /\ returned = <<>>

\* all_orientations is evaluated on the drawn piece.
AllOrientationsCall ==
    /\ invoked.fn = "all_orientations"
    /\ returned = <<>>
    /\ returned' = <<all_orientations(invoked.piece)>>
    /\ UNCHANGED invoked
    /\ UNCHANGED <<solverVars, keyVars, previous, fileVars>>

OrientSpec == OrientInit /\ [][AllOrientationsCall]_vars

\* The cubes of an orientation as a set of coordinates.
CubeSet(orientation) == {orientation[k] : k \in DOMAIN orientation}

\* C14: no two orientations all_orientations returns consist of the same
\* set of cube coordinates, pieces with a rotational self-symmetry included.
C14_DistinctAsSets ==
    (invoked.fn = "all_orientations" /\ returned # <<>>)
        => \A i, j \in DOMAIN returned[1] :
               i # j => CubeSet(returned[1][i]) # CubeSet(returned[1][j])

\* C15: for a non-empty piece all_orientations returns at most 24
\* orientations, each with as many cubes as the piece and each with minimum
\* x, minimum y and minimum z equal to 0.
C15_BoundedNormalized ==
    (invoked.fn = "all_orientations" /\ returned # <<>>)
        => /\ Len(returned[1]) <= 24
           /\ \A i \in DOMAIN returned[1] :
                  /\ Len(returned[1][i]) = Len(invoked.piece)
                  /\ \A a \in 1..3 :
                         Min({returned[1][i][k][a] : k \in DOMAIN returned[1][i]}) = 0

\* A four-cube piece came back in 24 orientations.
C15_Witness ==
    /\ invoked.fn = "all_orientations"
    /\ returned # <<>>
    /\ Len(invoked.piece) = 4
    /\ Len(returned[1]) = 24

(***************************************************************************)
(* build_placement_table applied to a piece list drawn from a bounded set. *)
(***************************************************************************)
\* Grid dimensions a table is built for.
TableDims == {1, 2, 3, 4}

\* The second Bedlam piece (Long Stick).
LongStick == <<(<<0, 0, 0>>), (<<1, 0, 0>>), (<<2, 0, 0>>), (<<3, 0, 0>>), (<<3, 1, 0>>)>>

\* The Soma pieces, the pieces of the searched puzzles (normalized or not),
\* a piece listing a cube twice and the longest Bedlam piece.
TablePieces ==
    {PIECES[i] : i \in DOMAIN PIECES}
    \cup {Monomino, Domino, SmallL, ScrewA, ScrewB, LongStick,
          Scattered0, Scattered1, Scattered2, Scattered3, Scattered4, Scattered5,
          <<(<<0, 0, 0>>), (<<0, 0, 0>>), (<<0, 0, 1>>)>>}

\* Lists of one piece, and of the domino followed by one piece.
TablePieceLists == {<<p>> : p \in TablePieces} \cup {<<Domino, p>> : p \in TablePieces}

PlacementInit ==
    /\ SolverIdle
    /\ KeyIdle
    /\ previous = None
    /\ FileIdle
    /\ invoked \in {[fn |-> "build_placement_table", DIM |-> d, GRID_SIZE |-> d * d * d,
                      pieces |-> l] : d \in TableDims, l \in TablePieceLists}
    /\ returned = <<>>

\* Self::build_placement_table(self.pieces) is evaluated.
BuildPlacementTableCall ==
    /\ invoked.fn = "build_placement_table"
    /\ returned = <<>>
    /\ returned' = <<build_placement_table(invoked.DIM, invoked.GRID_SIZE, invoked.pieces)>>
    /\ UNCHANGED invoked
    /\ UNCHANGED <<solverVars, keyVars, previous, fileVars>>

PlacementSpec == PlacementInit /\ [][BuildPlacementTableCall]_vars

\* The cubes of piece turned by ROTATIONS[r] and moved so that the first
\* cube lies on the cell first.
Positioned(D, piece, r, first) ==
    LET turned == [k \in DOMAIN piece |-> ROTATIONS(r, piece[k])]
        at == <<first \div (D * D), (first \div D) % D, first % D>>
    IN  [k \in DOMAIN piece |->
            <<turned[k][1] - turned[1][1] + at[1],
              turned[k][2] - turned[1][2] + at[2],
              turned[k][3] - turned[1][3] + at[3]>>]

\* Every coordinate of the positioning is in [0, D).
InsideGrid(D, positioned) ==
    \A k \in DOMAIN positioned : \A a \in 1..3 : positioned[k][a] \in 0..(D - 1)

\* The cell indices of the cubes of a positioning.
CellsOf(D, positioned) ==
    {positioned[k][1] * D * D + positioned[k][2] * D + positioned[k][3] :
        k \in DOMAIN positioned}

\* C22: the placement list for (piece p, target cell t) is exactly the set
\* of in-bounds positionings that cover t: every entry has its cube_count
\* coordinates in [0, D), has the bit of t set and has an occupancy mask whose
\* bits are exactly the cell indices of those coordinates; and every translate
\* of every rotation of p that lies inside the grid and covers t is in the list.
C22_PlacementsExact ==
    (invoked.fn = "build_placement_table" /\ returned # <<>>)
        => \A p1 \in DOMAIN invoked.pieces :
           LET D == invoked.DIM
               piece == invoked.pieces[p1]
               inside == {q \in (0..(NUM_ROTATIONS - 1)) \X (0..(invoked.GRID_SIZE - 1)) :
                             InsideGrid(D, Positioned(D, piece, q[1], q[2]))}
               fitting == {Positioned(D, piece, q[1], q[2]) : q \in inside}
           IN  \A t \in 0..(invoked.GRID_SIZE - 1) :
               LET list == returned[1][p1][t + 1]
                   listed == {SubSeq(list[e].cube_positions, 1, list[e].cube_count) :
                                 e \in DOMAIN list}
               IN  /\ \A e \in DOMAIN list :
                          /\ list[e].cube_count = Len(piece)
                          /\ list[e].occupied_mask
                                 = CellsOf(D, SubSeq(list[e].cube_positions, 1, list[e].cube_count))
                          /\ t \in list[e].occupied_mask
                   /\ \A positioned \in listed : InsideGrid(D, positioned)
                   /\ listed = {positioned \in fitting : t \in CellsOf(D, positioned)}

\* The table of the Soma T piece was built for the 3x3x3 grid; the list for
\* the centre cell is not empty and shorter than the list of all 24
\* orientations anchored at each of their cubes.
C22_Witness ==
    /\ invoked.fn = "build_placement_table"
    /\ invoked.DIM = 3
    /\ invoked.pieces = <<PIECES[2]>>
    /\ returned # <<>>
    /\ Len(returned[1][1][14]) > 0
    /\ Len(returned[1][1][14]) < NUM_ROTATIONS * Len(PIECES[2])

(***************************************************************************)
(* build_rotation_table, coord_to_idx and idx_to_coord applied on their    *)
(* own, for the dimensions of the two built-in puzzles.                    *)
(***************************************************************************)
GridDims == {3, 4}

GridInit ==
    /\ SolverIdle
    /\ KeyIdle
    /\ previous = None
    /\ FileIdle
    /\ invoked \in
          {[fn |-> "build_rotation_table", DIM |-> d] : d \in GridDims}
          \cup UNION {{[fn |-> "coord_to_idx", DIM |-> d, coord |-> c] :
                         c \in (0..(d - 1)) \X (0..(d - 1)) \X (0..(d - 1))} : d \in GridDims}
          \cup UNION {{[fn |-> "idx_to_coord", DIM |-> d, cell_index |-> i] :
                         i \in 0..(d * d * d - 1)} : d \in GridDims}
    /\ returned = <<>>

\* build_rotation_table::<DIM, GRID_SIZE>() is evaluated.
BuildRotationTableCall ==
    /\ invoked.fn = "build_rotation_table"
    /\ returned = <<>>
    /\ returned' = <<build_rotation_table(invoked.DIM)>>
    /\ UNCHANGED invoked
    /\ UNCHANGED <<solverVars, keyVars, previous, fileVars>>

\* coord_to_idx is evaluated on the drawn coordinate, or on the coordinate
\* idx_to_coord returned.
CoordToIdxCall ==
    /\ \/ /\ invoked.fn = "coord_to_idx"
          /\ returned = <<>>
          /\ returned' = <<coord_to_idx(invoked.DIM, invoked.coord[1], invoked.coord[2],
                                        invoked.coord[3])>>
       \/ /\ invoked.fn = "idx_to_coord"
          /\ Len(returned) = 1
          /\ returned' = Append(returned,
                 coord_to_idx(invoked.DIM, returned[1][1], returned[1][2], returned[1][3]))
    /\ UNCHANGED invoked
    /\ UNCHANGED <<solverVars, keyVars, previous, fileVars>>

\* idx_to_coord is evaluated on the drawn index, or on the index
\* coord_to_idx returned.
IdxToCoordCall ==
    /\ \/ /\ invoked.fn = "idx_to_coord"
          /\ returned = <<>>
          /\ returned' = <<idx_to_coord(invoked.DIM, invoked.cell_index)>>
       \/ /\ invoked.fn = "coord_to_idx"
          /\ Len(returned) = 1
          /\ returned' = Append(returned, idx_to_coord(invoked.DIM, returned[1]))
    /\ UNCHANGED invoked
    /\ UNCHANGED <<solverVars, keyVars, previous, fileVars>>

GridNext ==
    \/ BuildRotationTableCall
    \/ CoordToIdxCall
    \/ IdxToCoordCall

GridSpec == GridInit /\ [][GridNext]_vars

\* C16: for dimension 3 and 4 and each of the 24 rotations the table row is
\* a bijection on cell indices: every destination is below DIM^3 and no two
\* source cells have the same destination.
C16_RowsAreBijections ==
    (invoked.fn = "build_rotation_table" /\ returned # <<>>)
        => /\ Len(returned[1]) = NUM_ROTATIONS
           /\ \A rot1 \in DOMAIN returned[1] :
                  /\ Len(returned[1][rot1]) = invoked.DIM * invoked.DIM * invoked.DIM
                  /\ \A s1 \in DOMAIN returned[1][rot1] :
                         /\ returned[1][rot1][s1] \in 0..(invoked.DIM * invoked.DIM * invoked.DIM - 1)
                         /\ \A s2 \in DOMAIN returned[1][rot1] :
                                s1 # s2 => returned[1][rot1][s1] # returned[1][rot1][s2]

\* The 4x4x4 table was built and its second row moves a cell.
C16_Witness ==
    /\ invoked.fn = "build_rotation_table"
    /\ invoked.DIM = 4
    /\ returned # <<>>
    /\ \E s1 \in DOMAIN returned[1][2] : returned[1][2][s1] # s1 - 1

\* C17: for dimension 3 and 4, row 0 of the table is the identity:
\* table[0][c] = c for every cell index c.
C17_RowZeroIsIdentity ==
    (invoked.fn = "build_rotation_table" /\ returned # <<>>)
        => \A c \in 0..(invoked.DIM * invoked.DIM * invoked.DIM - 1) :
               returned[1][1][c + 1] = c

\* The 4x4x4 table was built and its row 0 holds 63 at cell 63.
C17_Witness ==
    /\ invoked.fn = "build_rotation_table"
    /\ invoked.DIM = 4
    /\ returned # <<>>
    /\ returned[1][1][64] = 63

\* C18: for dimension 3 and 4, idx_to_coord(coord_to_idx(x, y, z)) is
\* (x, y, z) for 0 <= x, y, z < DIM, coord_to_idx(idx_to_coord(i)) is i for
\* 0 <= i < DIM^3, and idx_to_coord(i) has every component below DIM.
C18_MutuallyInverse ==
    /\ (invoked.fn = "coord_to_idx" /\ Len(returned) = 2) => returned[2] = invoked.coord
    /\ (invoked.fn = "idx_to_coord" /\ Len(returned) = 2) => returned[2] = invoked.cell_index
    /\ (invoked.fn = "idx_to_coord" /\ Len(returned) >= 1)
           => \A a \in 1..3 : returned[1][a] \in 0..(invoked.DIM - 1)

\* (3, 2, 1) of the 4x4x4 grid went to index 57 and back.
C18_Witness ==
    /\ invoked.fn = "coord_to_idx"
    /\ invoked.DIM = 4
    /\ invoked.coord = <<3, 2, 1>>
    /\ returned = <<57, <<3, 2, 1>>>>

(***************************************************************************)
(* A row of the rotation table beside geometry::ROTATIONS applied to the   *)
(* cells of the grid about its centre.                                     *)
(***************************************************************************)
\* Largest DIM a row is built for.
MaxTableDim == 7

RowInit ==
    /\ SolverIdle
    /\ KeyIdle
    /\ previous = None
    /\ FileIdle
    /\ invoked \in {[fn |-> "rotation_mapping", DIM |-> d, rot |-> r] :
                      d \in 0..MaxTableDim, r \in 0..(NUM_ROTATIONS - 1)}
    /\ returned = <<>>

\* build_rotation_table::<DIM, GRID_SIZE>()[rot], as find_smallest_rotation
\* reads it.
RotationMappingRead ==
    /\ invoked.fn = "rotation_mapping"
    /\ returned = <<>>
    /\ returned' = <<build_rotation_table(invoked.DIM)[invoked.rot + 1]>>
    /\ UNCHANGED invoked
    /\ UNCHANGED <<solverVars, keyVars, previous, fileVars>>

\* geometry::ROTATIONS[rot] applied to every cell of the grid: the cell's
\* position relative to the centre in doubled coordinates is rotated and
\* translated back, and the cell index of the result is taken.
RotationsApplied ==
    /\ invoked.fn = "rotation_mapping"
    /\ Len(returned) = 1
    /\ returned' = Append(returned,
           [src1 \in 1..(invoked.DIM * invoked.DIM * invoked.DIM) |->
               LET to == RotateAboutCentre(invoked.DIM, invoked.rot,
                                           idx_to_coord(invoked.DIM, src1 - 1))
               IN  coord_to_idx(invoked.DIM, to[1], to[2], to[3])])
    /\ UNCHANGED invoked
    /\ UNCHANGED <<solverVars, keyVars, previous, fileVars>>

RowNext ==
    \/ RotationMappingRead
    \/ RotationsApplied

RowSpec == RowInit /\ [][RowNext]_vars

\* C25: for every rotation index r in 0..23, every dimension D and every
\* cell c, table[r][c] is the cell obtained by applying geometry::ROTATIONS[r]
\* to the position of c relative to the grid centre (in doubled coordinates)
\* and translating back.
C25_IndexForIndex ==
    (invoked.fn = "rotation_mapping" /\ Len(returned) = 2) => returned[1] = returned[2]

\* The loop runs to its end: every iteration is eventually taken.
FairSpec == Spec /\ WF_vars(Next)

(***************************************************************************)
(* Properties of solve.                                                    *)
(***************************************************************************)
SolutionKey(i) == puzzle_canonical_key(Puzzles[puzzle], solutions[i])

\* A placed piece given by its piece index and its cube positions.
PlacedAt(piece_index, positions) ==
    [piece_index |-> piece_index,
     positions |-> [k \in 1..MAX_CUBES |-> IF k <= Len(positions) THEN positions[k] ELSE <<0, 0, 0>>],
     cube_count |-> Len(positions)]

\* The cells a placed piece covers.
MaskOf(DIM, placed) ==
    {coord_to_idx(DIM, placed.positions[k][1], placed.positions[k][2], placed.positions[k][3]) :
        k \in 1..placed.cube_count}

\* placed is the piece in one of its rotational orientations, translated.
IsOrientationOf(piece, placed) ==
    LET held == {placed.positions[k] : k \in 1..placed.cube_count}
        Fits(orientations) ==
            \E n \in DOMAIN orientations : \E anchor \in DOMAIN orientations[n] :
                LET o == orientations[n]
                    offset == <<placed.positions[1][1] - o[anchor][1],
                                placed.positions[1][2] - o[anchor][2],
                                placed.positions[1][3] - o[anchor][3]>>
                IN  held = {<<o[k][1] + offset[1], o[k][2] + offset[2], o[k][3] + offset[3]>> :
                              k \in DOMAIN o}
    IN  /\ placed.cube_count = Len(piece)
        /\ Fits(all_orientations(piece))

\* X places distinct pieces of pz, each in one of its rotational
\* orientations inside the grid, and covers every cell exactly once.
IsExactCover(pz, X) ==
    /\ \A i \in DOMAIN X : X[i].piece_index \in 0..(pz.NUM_PIECES - 1)
    /\ \A i, j \in DOMAIN X : i # j => X[i].piece_index # X[j].piece_index
    /\ \A i \in DOMAIN X : \A k \in 1..X[i].cube_count : \A a \in 1..3 :
          X[i].positions[k][a] \in 0..(pz.DIM - 1)
    /\ \A i \in DOMAIN X : IsOrientationOf(pz.pieces[X[i].piece_index + 1], X[i])
    /\ \A i \in DOMAIN X : Cardinality(MaskOf(pz.DIM, X[i])) = X[i].cube_count
    /\ \A cell \in 0..(pz.GRID_SIZE - 1) :
          Cardinality({i \in DOMAIN X : cell \in MaskOf(pz.DIM, X[i])}) = 1

\* An arrangement of the first 2x2x2 puzzle.
Cover1 ==
    <<PlacedAt(0, <<(<<1, 0, 0>>), (<<1, 0, 1>>)>>),
      PlacedAt(1, <<(<<0, 0, 0>>), (<<0, 1, 0>>)>>),
      PlacedAt(2, <<(<<1, 1, 1>>), (<<0, 1, 1>>), (<<1, 1, 0>>), (<<0, 0, 1>>)>>)>>

\* An arrangement of the 3x3x3 puzzle.
Cover3 ==
    <<PlacedAt(0, <<(<<0, 0, 1>>), (<<0, 0, 0>>), (<<1, 2, 2>>), (<<2, 2, 0>>), (<<2, 1, 2>>)>>),
      PlacedAt(2, <<(<<1, 1, 1>>), (<<2, 2, 2>>), (<<2, 0, 0>>), (<<1, 0, 2>>), (<<0, 0, 2>>)>>),
      PlacedAt(1, <<(<<2, 0, 1>>), (<<2, 1, 1>>), (<<0, 2, 0>>), (<<0, 1, 0>>)>>),
      PlacedAt(5, <<(<<1, 2, 0>>), (<<1, 0, 0>>), (<<2, 2, 1>>), (<<1, 0, 1>>), (<<0, 1, 1>>)>>),
      PlacedAt(4, <<(<<1, 2, 1>>), (<<0, 1, 2>>), (<<2, 1, 0>>)>>),
      PlacedAt(3, <<(<<1, 1, 2>>), (<<0, 2, 1>>), (<<1, 1, 0>>), (<<0, 2, 2>>), (<<2, 0, 2>>)>>)>>

KnownCovers == <<{Cover1}, {}, {Cover3}>>

\* C1: when the uncapped search has ended, every arrangement X that places
\* each used piece in one of its orientations inside the grid and covers every
\* cell exactly once has a returned solution with the canonical key of X.
C1_Complete ==
    (pc = "done" /\ max_solutions = None)
        => \A X \in KnownCovers[puzzle] :
               IsExactCover(Puzzles[puzzle], X)
                   => \E i \in DOMAIN solutions :
                          SolutionKey(i) = puzzle_canonical_key(Puzzles[puzzle], X)

\* C2: no two solutions in the list solve returns, capped or uncapped, have
\* the same canonical key.
C2_DistinctKeys ==
    \A i, j \in DOMAIN solutions : i < j => SolutionKey(i) # SolutionKey(j)

\* An uncapped search returned with several solutions.
C2_Witness == pc = "done" /\ max_solutions = None /\ Len(solutions) >= 3

\* C3: in every solution solve returns the occupancy masks of the placed
\* pieces are pairwise disjoint and their union is the full-grid mask.
C3_ExactCover ==
    \A s \in DOMAIN solutions :
        /\ \A i, j \in DOMAIN solutions[s] :
              i # j => MaskOf(Puzzles[puzzle].DIM, solutions[s][i])
                          \cap MaskOf(Puzzles[puzzle].DIM, solutions[s][j]) = {}
        /\ UNION {MaskOf(Puzzles[puzzle].DIM, solutions[s][i]) : i \in DOMAIN solutions[s]}
              = 0..(Puzzles[puzzle].GRID_SIZE - 1)

\* A solution of four placed pieces was recorded.
C3_Witness == Len(solutions) >= 1 /\ Len(solutions[1]) = 4

C12_NeverPanics == pc # "panicked"

\* The lowest-index cell of the grid that is not in the mask.
LowestUnoccupied(GRID_SIZE, occupied) ==
    Min({c \in 0..(GRID_SIZE - 1) : c \notin occupied})

\* C21: every child frame pushed by the search extends its parent by a
\* placement whose occupancy mask contains the lowest-index unoccupied cell of
\* the parent; find_first_empty_cell returns that lowest index for every mask
\* that is not full, and None exactly when all GRID_SIZE cells are occupied.
C21_TargetCellRule ==
    /\ \A i \in 2..Len(search_stack) :
           LET parent == search_stack[i - 1]
               child == search_stack[i]
               placed == child.placed_pieces[child.placed_count]
           IN  /\ child.placed_count = parent.placed_count + 1
               /\ SubSeq(child.placed_pieces, 1, parent.placed_count)
                      = SubSeq(parent.placed_pieces, 1, parent.placed_count)
               /\ child.occupied_cells
                      = parent.occupied_cells \cup MaskOf(Puzzles[puzzle].DIM, placed)
               /\ LowestUnoccupied(Puzzles[puzzle].GRID_SIZE, parent.occupied_cells)
                      \in MaskOf(Puzzles[puzzle].DIM, placed)
    /\ (invoked.fn = "find_first_empty_cell" /\ returned # <<>>)
           => returned[1] =
                  IF \A c \in 0..(invoked.GRID_SIZE - 1) : c \in invoked.occupied
                  THEN None
                  ELSE Some(LowestUnoccupied(invoked.GRID_SIZE, invoked.occupied))

\* A child was pushed over a parent whose lowest unoccupied cell is not cell 0.
C21_Witness ==
    /\ Len(search_stack) >= 3
    /\ LowestUnoccupied(Puzzles[puzzle].GRID_SIZE, search_stack[2].occupied_cells) > 0
    /\ LowestUnoccupied(Puzzles[puzzle].GRID_SIZE, search_stack[2].occupied_cells)
           \in search_stack[3].occupied_cells

RECURSIVE PairsFrom(_, _, _, _)
\* The (piece index, placement index) pairs of the remaining pieces from
\* piece i on at a target cell: pieces ascending, placements in table order.
PairsFrom(pzi, remaining, target_cell, i) ==
    IF i >= Len(Puzzles[pzi].pieces) THEN <<>>
    ELSE (IF i \in remaining
          THEN [j \in 1..Len(PlacementTables[pzi][i + 1][target_cell + 1]) |-> <<i, j - 1>>]
          ELSE <<>>)
         \o PairsFrom(pzi, remaining, target_cell, i + 1)

\* How many of the pairs lie before the cursors of the frame.
PairsBeforeCursor(pairs, frame) ==
    Cardinality({k \in DOMAIN pairs :
        \/ pairs[k][1] < frame.current_piece_index
        \/ /\ pairs[k][1] = frame.current_piece_index
           /\ pairs[k][2] < frame.current_orientation_index})

\* One pop of an incomplete frame in an uncapped search: the pairs examined
\* are the pairs of the frame from its cursors on, in order and without a gap;
\* a frame pushed back has its cursors just after the last pair examined,
\* lies directly under the child, whose cursors are zero, and the frames
\* below are untouched; a frame not pushed back has had its last pair examined.
ScanStep ==
    (/\ pc = "search"
     /\ max_solutions = None
     /\ search_stack # <<>>
     /\ find_first_empty_cell(Puzzles[puzzle].GRID_SIZE, Top.occupied_cells) # None)
        => \E target_cell \in {find_first_empty_cell(Puzzles[puzzle].GRID_SIZE,
                                                     Top.occupied_cells)[1]} :
           \E pairs \in {PairsFrom(puzzle, Top.remaining_pieces, target_cell, 0)} :
           \E walk \in {ExaminePairs(puzzle, Top, target_cell, seen_states, <<>>)} :
           \E before \in {PairsBeforeCursor(pairs, Top)} :
               /\ walk.examined = SubSeq(pairs, before + 1, before + Len(walk.examined))
               /\ SubSeq(search_stack', 1, Len(search_stack) - 1) = Popped
               /\ IF walk.pushed
                  THEN /\ Len(search_stack') = Len(search_stack) + 1
                       /\ search_stack'[Len(search_stack)]
                              = [Top EXCEPT
                                    !.current_piece_index =
                                        walk.examined[Len(walk.examined)][1],
                                    !.current_orientation_index =
                                        walk.examined[Len(walk.examined)][2] + 1]
                       /\ PairsBeforeCursor(pairs, search_stack'[Len(search_stack)])
                              = before + Len(walk.examined)
                       /\ search_stack'[Len(search_stack) + 1] = walk.child
                       /\ walk.child.current_piece_index = 0
                       /\ walk.child.current_orientation_index = 0
                  ELSE /\ search_stack' = Popped
                       /\ before + Len(walk.examined) = Len(pairs)

\* C23: in an uncapped search, over the lifetime of a frame (its first pop
\* and every resumption) each pair (remaining piece index, placement index at
\* the frame's target cell) is examined exactly once, pieces in ascending
\* order and placements in table order; a parent is popped again only after
\* every frame descended from the child it pushed has left the stack.
C23_ExhaustiveScan == [][ScanStep]_vars

\* In an uncapped search the root frame has been resumed past its first
\* piece and the frame above it past its first placement, under a fresh child.
C23_Witness ==
    /\ pc = "search"
    /\ max_solutions = None
    /\ Len(search_stack) >= 3
    /\ search_stack[1].current_piece_index > 0
    /\ search_stack[2].current_orientation_index > 1
    /\ search_stack[3].current_orientation_index = 0

\* The canonical key of the pieces a frame has placed.
FrameKey(frame) ==
    puzzle_canonical_key(Puzzles[puzzle], SubSeq(frame.placed_pieces, 1, frame.placed_count))

\* One step of a search: no key leaves the set; a step that pushes a child
\* inserts the child's key, which was not in the set, and nothing else; a step
\* that pushes no child leaves the set as it is; afterwards every frame above
\* the root has its key in the set.
KeySetStep ==
    /\ seen_states \subseteq seen_states'
    /\ IF Len(search_stack') > Len(search_stack)
       THEN \E key \in {FrameKey(search_stack'[Len(search_stack')])} :
                /\ key \notin seen_states
                /\ seen_states' = seen_states \cup {key}
       ELSE seen_states' = seen_states
    /\ \A i \in 2..Len(search_stack') : FrameKey(search_stack'[i]) \in seen_states'

\* C24: during a search no key is ever removed from the canonical-key set; a
\* key is inserted exactly when a child frame is pushed, and a candidate whose
\* key is already present pushes nothing; so every non-root frame ever on the
\* stack has its key in the set and no two frames ever pushed share a key.
C24_KeySetInStep == [][KeySetStep]_vars

\* The frame on top is about to be scanned, and a placement the scan examines
\* overlaps nothing but extends the frame to a key that is already in the set.
C24_Witness ==
    /\ pc = "search"
    /\ Len(search_stack) >= 2
    /\ find_first_empty_cell(Puzzles[puzzle].GRID_SIZE, Top.occupied_cells) # None
    /\ \E walk \in {ExaminePairs(puzzle, Top,
               find_first_empty_cell(Puzzles[puzzle].GRID_SIZE, Top.occupied_cells)[1],
               seen_states, <<>>)} :
       \E e \in DOMAIN walk.examined :
           LET placement ==
                   PlacementTables[puzzle][walk.examined[e][1] + 1]
                       [find_first_empty_cell(Puzzles[puzzle].GRID_SIZE,
                                              Top.occupied_cells)[1] + 1]
                       [walk.examined[e][2] + 1]
           IN  /\ Top.occupied_cells \cap placement.occupied_mask = {}
               /\ FrameKey(Extend(Top, walk.examined[e][1], placement)) \in seen_states

\* C26: at every step of the search the explicit stack holds at most
\* NUM_PIECES + 1 frames, each frame's occupied-cell set is a strict superset
\* of that of the frame below it, and no frame has placed_count greater than
\* NUM_PIECES.
C26_BoundedDepth ==
    pc = "search"
        => /\ Len(search_stack) <= Puzzles[puzzle].NUM_PIECES + 1
           /\ \A i \in 2..Len(search_stack) :
                  /\ search_stack[i - 1].occupied_cells \subseteq search_stack[i].occupied_cells
                  /\ search_stack[i - 1].occupied_cells # search_stack[i].occupied_cells
           /\ \A i \in DOMAIN search_stack :
                  search_stack[i].placed_count <= Puzzles[puzzle].NUM_PIECES

\* The stack of a four-piece puzzle holds five frames.
C26_Witness ==
    /\ pc = "search"
    /\ Puzzles[puzzle].NUM_PIECES = 4
    /\ Len(search_stack) = 5
    /\ search_stack[5].placed_count = 4

\* The placed pieces of the frame have distinct piece indices and disjoint
\* cells, remaining_pieces holds exactly the other piece indices, and
\* occupied_cells is exactly the cells of the placed pieces.
FrameConsistent(pz, frame) ==
    LET placed == SubSeq(frame.placed_pieces, 1, frame.placed_count)
    IN  /\ \A i, j \in DOMAIN placed : i # j => placed[i].piece_index # placed[j].piece_index
        /\ frame.remaining_pieces
               = (0..(pz.NUM_PIECES - 1)) \ {placed[i].piece_index : i \in DOMAIN placed}
        /\ frame.placed_count + Cardinality(frame.remaining_pieces) = pz.NUM_PIECES
        /\ \A i, j \in DOMAIN placed :
               i # j => MaskOf(pz.DIM, placed[i]) \cap MaskOf(pz.DIM, placed[j]) = {}
        /\ frame.occupied_cells = UNION {MaskOf(pz.DIM, placed[i]) : i \in DOMAIN placed}

\* C27: in every frame that is ever on the stack the placed pieces have
\* pairwise distinct piece indices, remaining_pieces is exactly the set of
\* piece indices not yet placed, the placed pieces' cells are pairwise
\* disjoint and occupied_cells is exactly their union; no piece is used
\* twice in any returned solution.
C27_FrameConsistency ==
    /\ \A i \in DOMAIN search_stack : FrameConsistent(Puzzles[puzzle], search_stack[i])
    /\ \A s \in DOMAIN solutions : \A i, j \in DOMAIN solutions[s] :
           i # j => solutions[s][i].piece_index # solutions[s][j].piece_index

\* A solution is recorded and a frame with three placed pieces is on the stack.
C27_Witness ==
    /\ pc = "search"
    /\ Len(solutions) >= 1
    /\ Len(search_stack) >= 4
    /\ Top.placed_count >= 3

\* C9: for every cap n >= 0, solve(Some(n)) holds at most n solutions.
C9_AtMostCap == max_solutions # None => Len(solutions) <= max_solutions[1]

\* C10: for every puzzle and every cap the search loop eventually ends, and
\* when uncapped it ends with the explicit stack empty.
C10_Terminates ==
    <>(pc = "done" /\ (max_solutions = None => search_stack = <<>>))

\* An uncapped search ended with the stack empty after pushing frames.
C10_Witness ==
    /\ pc = "done"
    /\ max_solutions = None
    /\ search_stack = <<>>
    /\ seen_states # {}

====
